---- MODULE Spec2Model ----
(***************************************************************************)
(* Model of the os-nova autoscaler target plugin                           *)
(* (src/plugin/plugin.go, first snapshot of src/plugin/openstack.go,       *)
(* src/unnamed/part_001): the TargetPlugin, its Scale / Status / SetConfig *)
(* entry points, the inventory scan, the create and delete drivers, and    *)
(* the compute provider they talk to.                                      *)
(*                                                                         *)
(* A call is modelled as a sequence of steps, one per provider or hook     *)
(* call of the code; pc is the position of the (single) call in flight.    *)
(* The host serialises calls, so a new call starts only when pc = "idle".  *)
(***************************************************************************)
EXTENDS Integers, Sequences, FiniteSets, TLC

\* ------------------------------------------------------------------ bounds
MaxSrv     == 2   \* server ids the provider ever hands out
InitSrv    == 1   \* servers that may exist before the first call
MaxDesired == 2   \* largest desired count of a Scale call
PageSize   == 1   \* servers per page of a provider listing
MaxCalls   == 3   \* SetConfig / Scale / Status calls in a run
MaxAZ      == 3   \* zones distributeAZ is tried on
MaxAZCount == 5   \* largest current count of a zone
MaxSlots   == 5   \* largest batch distributeAZ is tried on
MaxIgnored == 2   \* longest ignored_states list configurePlugin is tried on

\* sdk.StrategyActionMetaValueDryRunCount, compared at plugin.go:184
DryRunCount == -1

\* ------------------------------------------------------------- universes
SrvIdx     == 1..MaxSrv
SrvId(k)   == "i" \o ToString(k)
SrvIds     == {SrvId(k) : k \in SrvIdx}
IdxOf(id)  == CHOOSE k \in SrvIdx : SrvId(k) = id

Statuses   == {"ACTIVE", "BUILD", "REBOOT", "HARD_REBOOT", "SHUTOFF",
               "ERROR", "DELETED", "SOFT_DELETED"}
\* "NONE": no such server at the provider (never created, or purged): GET -> 404
\* a server slot: tags are the tags the server carries, owner (ghost) the pool
\* it was created for
NoServer   == [name |-> "", status |-> "NONE", az |-> "", tags |-> {}, owner |-> "",
               task |-> "none"]

CfgName    == "n"                    \* the name given by config key "name"
UniqName(k) == "p" \o ToString(k)    \* name_prefix + 13 chars of a fresh UUID
StaleIdents == {"x1", "x2"}          \* identifiers of nodes with no live instance
Pool       == "P"
OtherPool  == "Q"
DefaultAZ  == "nova"
AZ(k)      == "az" \o ToString(k)

\* ------------------------------------------------------------- variables
VARIABLES
    \* the compute provider
    srv,            \* [SrvIds -> server record]
    nextId,         \* index of the next server id the provider hands out
    fips,           \* floating IPs allocated at the provider (their ids)
    \* TargetPlugin fields
    clusterUtils,   \* TRUE once SetConfig stored the cluster utilities
    idMapper, stopBeforeDestroy, forceDelete, ignoredStates, avZones,
    cache, fipIDs,
    \* the call in flight
    pc, op, count, pool, stopFirst, forceDel,
    total, ready, azDist, remoteIDs, marker, seen,
    hook, instanceIDs, instanceNameMap, page, pidx, idx, inst,
    dseen,          \* history: the servers listed by deleteServers' scan
    common, customCDList,
    err, status, log, calls,
    \* a pure function under study: its input and its result
    fin, fout

provVars   == <<srv, nextId, fips>>
pluginVars == <<clusterUtils, idMapper, stopBeforeDestroy, forceDelete,
                ignoredStates, avZones, cache, fipIDs>>
scanVars   == <<total, ready, azDist, remoteIDs, marker, seen>>
delVars    == <<hook, instanceIDs, dseen, instanceNameMap, page, pidx, idx, inst,
                stopFirst, forceDel>>
outVars    == <<common, customCDList>>
callVars   == <<pc, op, count, pool, err, status, log, calls>>
pureVars   == <<fin, fout>>
vars       == <<provVars, pluginVars, scanVars, delVars, outVars, callVars, pureVars>>

\* ---------------------------------------------------------------- helpers
Min(a, b)  == IF a < b THEN a ELSE b
Range(s)   == {s[i] : i \in DOMAIN s}

\* a Go map read: the zero value when the key is absent
MapGet(m, k) == IF k \in DOMAIN m THEN m[k] ELSE 0
MapPut(m, k, v) == [x \in DOMAIN m \cup {k} |-> IF x = k THEN v ELSE m[x]]
MapDel(m, k) == [x \in DOMAIN m \ {k} |-> m[x]]
EmptyMap   == [x \in {} |-> 0]

RECURSIVE Asc(_)
Asc(S) == IF S = {} THEN <<>>
          ELSE LET m == CHOOSE x \in S : \A y \in S : x <= y
               IN <<m>> \o Asc(S \ {m})

\* sequences of k distinct elements of S
Perms(S, k) == {s \in [1..k -> S] : \A i, j \in 1..k : i # j => s[i] # s[j]}

Ev(o, a, k) == [op |-> o, arg |-> a, ok |-> k]
NoErr      == [kind |-> "", arg |-> ""]
Err(k, a)  == [kind |-> k, arg |-> a]
NoStatus   == [set |-> FALSE, ready |-> FALSE, count |-> 0]
NoHook     == [called |-> FALSE, count |-> 0, remoteIDs |-> <<>>, ok |-> FALSE,
               ids |-> <<>>, post |-> "no"]
NoCommon   == [name |-> "", namePrefix |-> "", pool |-> "", tags |-> <<>>,
               imageID |-> "", flavorID |-> "", networkUUID |-> "",
               floatingIPPool |-> "",
               availabilityZones |-> <<>>, evenlydistributeAZ |-> FALSE,
               userDataTemplate |-> ""]


\* ------------------------------------------------------- pure functions
\* fault: the magnitude of a scale-in is not negated
calculateDirection_negative(target, desired) ==
    IF desired < target THEN <<desired - target, "in">>
    ELSE IF desired > target THEN <<desired - target, "out">>
    ELSE <<0, "">>

\* plugin.go calculateDirection: <<magnitude, direction>>
calculateDirection(target, desired) ==
    IF desired < target THEN <<target - desired, "in">>
    ELSE IF desired > target THEN <<desired - target, "out">>
    ELSE <<0, "">>

\* fault: the state names are compared as they were written
ToUpper_asWritten(s) == s

\* strings.ToUpper on the state names the model uses (nothing is trimmed: a
\* name written with a blank keeps it)
ToUpper(s) ==
    CASE s \in {"active", "Active", "aCtIvE"} -> "ACTIVE"
      [] s \in {"build", "Build"} -> "BUILD"
      [] s \in {"reboot", "Reboot"} -> "REBOOT"
      [] s \in {"hard_reboot", "Hard_Reboot"} -> "HARD_REBOOT"
      [] s \in {"error", "Error"} -> "ERROR"
      [] s = "shutoff" -> "SHUTOFF"
      [] s = " active" -> " ACTIVE"
      [] OTHER -> s

NonIgnorable == {"ACTIVE", "BUILD", "REBOOT", "HARD_REBOOT"}

\* configurePlugin's loop over the split ignored_states list, from item i with
\* the set built so far: [ok, set]; it returns at the first non-ignorable state
RECURSIVE ignoreLoop(_, _, _)
ignoreLoop(list, i, set) ==
    IF i > Len(list) THEN [ok |-> TRUE, set |-> set]
    ELSE LET state == ToUpper(list[i])
         IN IF state \in NonIgnorable THEN [ok |-> FALSE, set |-> set]
            ELSE ignoreLoop(list, i + 1, set \cup {state})

\* countServers' identity function
idFn(v, idm) == IF idm THEN v.id ELSE v.name

EmptyCount == [total |-> 0, ready |-> 0, azDist |-> EmptyMap, remoteIDs |-> <<>>]

\* fault: the member identifier is appended before the ignore check
countOne_idFirst(acc, v, ign, idm) ==
    IF v.status \in ign
    THEN [acc EXCEPT !.remoteIDs = Append(acc.remoteIDs, idFn(v, idm))]
    ELSE [total     |-> acc.total + 1,
          ready     |-> IF v.status = "ACTIVE" THEN acc.ready + 1 ELSE acc.ready,
          azDist    |-> MapPut(acc.azDist, v.az, MapGet(acc.azDist, v.az) + 1),
          remoteIDs |-> Append(acc.remoteIDs, idFn(v, idm))]

\* fault: ERROR is skipped whatever the ignore set holds
countOne_dropError(acc, v, ign, idm) ==
    IF v.status \in ign \cup {"ERROR"} THEN acc
    ELSE [total     |-> acc.total + 1,
          ready     |-> IF v.status = "ACTIVE" THEN acc.ready + 1 ELSE acc.ready,
          azDist    |-> MapPut(acc.azDist, v.az, MapGet(acc.azDist, v.az) + 1),
          remoteIDs |-> Append(acc.remoteIDs, idFn(v, idm))]

\* the body of countServers' loop for one listed server
countOne(acc, v, ign, idm) ==
    IF v.status \in ign THEN acc
    ELSE [total     |-> acc.total + 1,
          ready     |-> IF v.status = "ACTIVE" THEN acc.ready + 1 ELSE acc.ready,
          azDist    |-> MapPut(acc.azDist, v.az, MapGet(acc.azDist, v.az) + 1),
          remoteIDs |-> Append(acc.remoteIDs, idFn(v, idm))]

\* countServers' page callback: the loop over one extracted page
RECURSIVE countPage(_, _, _, _)
countPage(acc, pg, ign, idm) ==
    IF pg = <<>> THEN acc
    ELSE countPage(countOne(acc, Head(pg), ign, idm), Tail(pg), ign, idm)

\* ------------------------------------------------------------ provider
\* A listing by tag returns the live servers carrying the tag; a server the
\* provider has deleted (DELETED, or purged) is not listed, a soft-deleted one is.
Listed(s, tag) == s.status \notin {"NONE", "DELETED"} /\ tag \in s.tags

\* fmt.Sprintf(poolTag, pool)
poolTag(p) == "na_pool:" \o p

View(id) == [id |-> id, name |-> srv[id].name, az |-> srv[id].az,
             status |-> srv[id].status]

\* servers.List(..., ListOpts{Tags: fmt.Sprintf(poolTag, p)}): the page after
\* marker m
ListPage(p, m) ==
    LET ks == Asc({k \in SrvIdx : k > m /\ Listed(srv[SrvId(k)], poolTag(p))})
    IN [j \in 1..Min(PageSize, Len(ks)) |-> View(SrvId(ks[j]))]

\* EachPage asks for a further page only after a full one
LastPage(pg) == Len(pg) < PageSize
PageMarker(pg) == IdxOf(pg[Len(pg)].id)

\* ---------------------------------------------------------------- Init
\* the pool before the first call: n servers, each ACTIVE or ERROR, named by the
\* configured name or by a unique name, spread over two zones; the last one may
\* belong to another pool
InitServer(k, uniq, st, other) ==
    [name   |-> IF uniq THEN UniqName(k) ELSE CfgName,
     status |-> st,
     az     |-> AZ(2 - (k % 2)),
     tags   |-> {poolTag(IF other THEN OtherPool ELSE Pool)},
     owner  |-> IF other THEN OtherPool ELSE Pool,
     task   |-> "none"]

\* the plugin after NewOSNovaPlugin, with no call made yet
InitPlugin ==
    /\ fips = {}
    /\ clusterUtils = FALSE /\ idMapper = FALSE
    /\ stopBeforeDestroy = FALSE /\ forceDelete = FALSE
    /\ ignoredStates = {} /\ avZones = <<>>
    /\ cache = EmptyMap /\ fipIDs = EmptyMap
    /\ pc = "idle" /\ op = "" /\ count = 0 /\ pool = ""
    /\ stopFirst = FALSE /\ forceDel = FALSE
    /\ total = 0 /\ ready = 0 /\ azDist = EmptyMap /\ remoteIDs = <<>>
    /\ marker = 0 /\ seen = <<>>
    /\ hook = NoHook /\ instanceIDs = <<>> /\ instanceNameMap = EmptyMap
    /\ page = <<>> /\ pidx = 0 /\ idx = 0 /\ inst = "" /\ dseen = <<>>
    /\ common = NoCommon /\ customCDList = <<>>
    /\ err = NoErr /\ status = NoStatus /\ log = <<>> /\ calls = 0

Init ==
    /\ \E n \in 0..Min(InitSrv, MaxSrv) :
       \E uniq \in [1..n -> BOOLEAN], st \in [1..n -> {"ACTIVE", "ERROR"}],
          other \in BOOLEAN :
         srv = [id \in SrvIds |->
                  IF IdxOf(id) <= n
                  THEN InitServer(IdxOf(id), uniq[IdxOf(id)], st[IdxOf(id)],
                                  other /\ IdxOf(id) = n)
                  ELSE NoServer]
    /\ nextId = 1 + Cardinality({k \in SrvIdx : srv[SrvId(k)].status # "NONE"})
    /\ InitPlugin
    /\ fin = <<>> /\ fout = <<>>

\* ---------------------------------------------------------------- calls
Idle == pc \in {"idle", "done"}

\* fault: the counts of the previous call are kept and added to
Begin_keepCounts(o, n, p) ==
    /\ op' = o /\ count' = n /\ pool' = p
    /\ stopFirst' = FALSE /\ forceDel' = FALSE
    /\ total' = total /\ ready' = ready /\ azDist' = azDist /\ remoteIDs' = remoteIDs
    /\ marker' = 0 /\ seen' = <<>>
    /\ hook' = NoHook /\ instanceIDs' = <<>> /\ instanceNameMap' = EmptyMap
    /\ page' = <<>> /\ pidx' = 0 /\ idx' = 0 /\ inst' = "" /\ dseen' = <<>>
    /\ common' = NoCommon /\ customCDList' = <<>>
    /\ calls' = calls + 1

\* entry of a call: the locals of the previous call are gone
Begin(o, n, p) ==
    /\ op' = o /\ count' = n /\ pool' = p
    /\ stopFirst' = FALSE /\ forceDel' = FALSE
    /\ total' = 0 /\ ready' = 0 /\ azDist' = EmptyMap /\ remoteIDs' = <<>>
    /\ marker' = 0 /\ seen' = <<>>
    /\ hook' = NoHook /\ instanceIDs' = <<>> /\ instanceNameMap' = EmptyMap
    /\ page' = <<>> /\ pidx' = 0 /\ idx' = 0 /\ inst' = "" /\ dseen' = <<>>
    /\ common' = NoCommon /\ customCDList' = <<>>
    /\ calls' = calls + 1

\* return from the call in flight
Return(e) == pc' = "done" /\ err' = e

\* ------------------------------------------------------------ SetConfig
ProviderZones == <<DefaultAZ, AZ(1), AZ(2)>>

\* getDefaultAvZones: the discovered zones without the default zone "nova"
getDefaultAvZones(zones) == SelectSeq(zones, LAMBDA z : z # DefaultAZ)

IgnoredLists == {<<>>, <<"error">>, <<"ERROR", "active">>}

\* fault: setupOSClients makes a new cache on every call
SetConfig_resetCache(fail, zonesOk, stop, force, ignored, idAttr) ==
    LET ign == ignoreLoop(ignored, 1, {})
        reachesPlugin == fail # "auth"
        reachesFlags  == reachesPlugin /\ fail # "timeout"
        pluginOk      == reachesFlags /\ ign.ok
        stored        == pluginOk /\ fail # "utils"
    IN
    /\ Idle /\ calls < MaxCalls
    /\ Begin("setconfig", 0, "")
    /\ avZones' = IF reachesPlugin /\ zonesOk
                  THEN getDefaultAvZones(ProviderZones) ELSE avZones
    /\ stopBeforeDestroy' = IF reachesFlags THEN stop ELSE stopBeforeDestroy
    /\ forceDelete' = IF reachesFlags THEN force ELSE forceDelete
    /\ ignoredStates' = IF reachesFlags THEN ign.set ELSE ignoredStates
    /\ clusterUtils' = (clusterUtils \/ stored)
    /\ idMapper' = IF stored THEN idAttr ELSE idMapper
    /\ Return(IF stored THEN NoErr
              ELSE IF reachesFlags /\ ~ign.ok THEN Err("config", "ignored_states")
              ELSE Err("config", fail))
    /\ status' = NoStatus /\ log' = <<>>
    /\ cache' = EmptyMap
    /\ UNCHANGED <<provVars, fipIDs>>
    /\ UNCHANGED pureVars

\* SetConfig(config): setupOSClients, configurePlugin, NewClusterScaleUtils.
\* fail names the step that fails: "auth" (setupOSClients returns an error),
\* "timeout" (an unparsable duration), "utils" (NewClusterScaleUtils), or "".
SetConfig(fail, zonesOk, stop, force, ignored, idAttr) ==
    LET ign == ignoreLoop(ignored, 1, {})
        reachesPlugin == fail # "auth"
        reachesFlags  == reachesPlugin /\ fail # "timeout"
        pluginOk      == reachesFlags /\ ign.ok
        stored        == pluginOk /\ fail # "utils"
    IN
    /\ Idle /\ calls < MaxCalls
    /\ Begin("setconfig", 0, "")
    /\ avZones' = IF reachesPlugin /\ zonesOk
                  THEN getDefaultAvZones(ProviderZones) ELSE avZones
    /\ stopBeforeDestroy' = IF reachesFlags THEN stop ELSE stopBeforeDestroy
    /\ forceDelete' = IF reachesFlags THEN force ELSE forceDelete
    /\ ignoredStates' = IF reachesFlags THEN ign.set ELSE ignoredStates
    /\ clusterUtils' = (clusterUtils \/ stored)
    /\ idMapper' = IF stored THEN idAttr ELSE idMapper
    /\ Return(IF stored THEN NoErr
              ELSE IF reachesFlags /\ ~ign.ok THEN Err("config", "ignored_states")
              ELSE Err("config", fail))
    /\ status' = NoStatus /\ log' = <<>>
    /\ UNCHANGED <<provVars, cache, fipIDs>>
    /\ UNCHANGED pureVars

\* ---------------------------------------------------------------- Scale
\* fault: the sentinel is not recognised
isDryRun_never(n) == FALSE

\* Scale's test for the dry-run sentinel
isDryRun(n) == n = DryRunCount

\* Scale(action, config) up to the start of the inventory scan; p is the
\* pool_name of the config when it has one
ScaleOn(n, hasPool, p) ==
    /\ Idle /\ clusterUtils /\ calls < MaxCalls
    /\ Begin("scale", n, IF hasPool THEN p ELSE "")
    /\ status' = NoStatus /\ log' = <<>>
    /\ IF isDryRun(n) THEN Return(NoErr)
       ELSE IF ~hasPool THEN Return(Err("config", "pool_name"))
       ELSE pc' = "countServers" /\ err' = NoErr
    /\ UNCHANGED <<provVars, pluginVars>>
    /\ UNCHANGED pureVars

Scale(n, hasPool) == ScaleOn(n, hasPool, Pool)

\* Status(config) up to the start of the inventory scan; precheck is the
\* answer of clusterUtils.IsPoolReady
StatusOn(precheck, hasPool, p) ==
    /\ Idle /\ clusterUtils /\ calls < MaxCalls
    /\ Begin("status", 0, IF hasPool THEN p ELSE "")
    /\ log' = <<Ev("precheck", precheck, precheck # "error")>>
    /\ CASE precheck = "error" -> Return(Err("precheck", "")) /\ status' = NoStatus
         [] precheck = "notready" ->
              Return(NoErr) /\ status' = [set |-> TRUE, ready |-> FALSE, count |-> 0]
         [] OTHER ->
              /\ status' = NoStatus
              /\ IF ~hasPool THEN Return(Err("config", "pool_name"))
                 ELSE pc' = "countServers" /\ err' = NoErr
    /\ UNCHANGED <<provVars, pluginVars>>
    /\ UNCHANGED pureVars

Status(precheck, hasPool) == StatusOn(precheck, hasPool, Pool)

\* fault: a page that fails ends the scan with what was counted so far
countServersPage_partial ==
    /\ pc = "countServers"
    /\ \/ /\ log' = Append(log, Ev("list", "", FALSE))
          /\ pc' = "counted" /\ err' = NoErr
          /\ UNCHANGED scanVars
       \/ LET pg  == ListPage(pool, marker)
              acc == countPage([total |-> total, ready |-> ready, azDist |-> azDist,
                                remoteIDs |-> remoteIDs], pg, ignoredStates, idMapper)
          IN /\ log' = Append(log, Ev("list", "", TRUE))
             /\ total' = acc.total /\ ready' = acc.ready
             /\ azDist' = acc.azDist /\ remoteIDs' = acc.remoteIDs
             /\ seen' = seen \o pg
             /\ marker' = IF pg = <<>> THEN marker ELSE PageMarker(pg)
             /\ pc' = IF LastPage(pg) THEN "counted" ELSE "countServers"
             /\ err' = NoErr
    /\ UNCHANGED <<provVars, pluginVars, delVars, outVars, op, count, pool, status, calls>>
    /\ UNCHANGED pureVars

\* countServers: one page of the listing and the callback on it
countServersPage ==
    /\ pc = "countServers"
    /\ \/ \* listing or decoding the page fails
          /\ log' = Append(log, Ev("list", "", FALSE))
          /\ Return(Err("count", ""))
          /\ UNCHANGED scanVars
       \/ LET pg  == ListPage(pool, marker)
              acc == countPage([total |-> total, ready |-> ready, azDist |-> azDist,
                                remoteIDs |-> remoteIDs], pg, ignoredStates, idMapper)
          IN /\ log' = Append(log, Ev("list", "", TRUE))
             /\ total' = acc.total /\ ready' = acc.ready
             /\ azDist' = acc.azDist /\ remoteIDs' = acc.remoteIDs
             /\ seen' = seen \o pg
             /\ marker' = IF pg = <<>> THEN marker ELSE PageMarker(pg)
             /\ pc' = IF LastPage(pg) THEN "counted" ELSE "countServers"
             /\ err' = NoErr
    /\ UNCHANGED <<provVars, pluginVars, delVars, outVars, op, count, pool, status, calls>>
    /\ UNCHANGED pureVars

\* fault: ready is reported without comparing the counts
StatusResult_alwaysReady ==
    /\ pc = "counted" /\ op = "status"
    /\ status' = [set |-> TRUE, ready |-> TRUE, count |-> total]
    /\ Return(NoErr)
    /\ UNCHANGED <<provVars, pluginVars, scanVars, delVars, outVars, op, count, pool, log, calls>>
    /\ UNCHANGED pureVars

\* Status after a successful scan
StatusResult ==
    /\ pc = "counted" /\ op = "status"
    /\ status' = [set |-> TRUE, ready |-> (total = ready), count |-> total]
    /\ Return(NoErr)
    /\ UNCHANGED <<provVars, pluginVars, scanVars, delVars, outVars, op, count, pool, log, calls>>
    /\ UNCHANGED pureVars

\* fault: the two directions of the switch are exchanged
ScaleDirection_swapped ==
    /\ pc = "counted" /\ op = "scale"
    /\ LET d == calculateDirection(total, count)
       IN CASE d[2] = "in"  -> pc' = "scaleOut" /\ err' = NoErr
            [] d[2] = "out" -> pc' = "scaleIn" /\ err' = NoErr
            [] OTHER        -> Return(NoErr)
    /\ UNCHANGED <<provVars, pluginVars, scanVars, delVars, outVars, op, count, pool, status, log, calls>>
    /\ UNCHANGED pureVars

\* Scale after a successful scan: the switch on calculateDirection
ScaleDirection ==
    /\ pc = "counted" /\ op = "scale"
    /\ LET d == calculateDirection(total, count)
       IN CASE d[2] = "in"  -> pc' = "scaleIn" /\ err' = NoErr
            [] d[2] = "out" -> pc' = "scaleOut" /\ err' = NoErr
            [] OTHER        -> Return(NoErr)
    /\ UNCHANGED <<provVars, pluginVars, scanVars, delVars, outVars, op, count, pool, status, log, calls>>
    /\ UNCHANGED pureVars


\* ------------------------------------------------------------- scale in
\* What the pre-scale-in hook may hand back: at most n distinct identifiers,
\* members of the pool or identifiers of nodes with no live instance.
HookResults(rids, n) ==
    UNION {Perms(Range(rids) \cup StaleIdents, k) : k \in 0..n}

\* fault: the stop_first option of the call is not looked at
StartDelete_globalOnly(sf) == IF stopBeforeDestroy THEN "stop" ELSE "delete"

\* deleteServer's first phase
StartDelete(sf) == IF stopBeforeDestroy \/ sf THEN "stop" ELSE "delete"

\* name-scan loop: the next server of the page whose name was requested (0: none)
NextMatch(pg, from, m) ==
    LET c == {j \in from..Len(pg) : pg[j].name \in DOMAIN m}
    IN IF c = {} THEN 0 ELSE CHOOSE j \in c : \A i \in c : j <= i

\* deleteServers, name-scan mode: go on with page pg from index from
ContinueScan(pg, from, m, sf) ==
    LET j == NextMatch(pg, from, m)
    IN /\ page' = pg
       /\ IF j > 0
          THEN /\ pidx' = j /\ inst' = pg[j].id /\ pc' = StartDelete(sf)
               /\ marker' = marker
          ELSE /\ pidx' = 0 /\ inst' = ""
               /\ IF LastPage(pg) THEN pc' = "deleteCheck" /\ marker' = marker
                  ELSE pc' = "deleteList" /\ marker' = PageMarker(pg)

\* scaleIn up to the first deletion: the pre-scale-in hook, the per-call
\* stop_first / force_delete options, and the head of deleteServers
scaleIn ==
    /\ pc = "scaleIn"
    /\ LET d == calculateDirection(total, count)
       IN \/ /\ hook' = [NoHook EXCEPT !.called = TRUE, !.count = d[1],
                                       !.remoteIDs = remoteIDs]
             /\ log' = Append(log, Ev("prehook", "", FALSE))
             /\ Return(Err("prehook", ""))
             /\ UNCHANGED <<instanceIDs, instanceNameMap, page, pidx, idx, inst,
                            stopFirst, forceDel, marker>>
          \/ \E ids \in HookResults(remoteIDs, d[1]), sf \in BOOLEAN, fd \in BOOLEAN :
             /\ hook' = [NoHook EXCEPT !.called = TRUE, !.count = d[1],
                                       !.remoteIDs = remoteIDs, !.ok = TRUE,
                                       !.ids = ids]
             /\ log' = Append(log, Ev("prehook", "", TRUE))
             /\ stopFirst' = sf /\ forceDel' = fd
             /\ instanceIDs' = ids
             /\ err' = NoErr
             /\ IF idMapper
                THEN /\ instanceNameMap' = EmptyMap /\ page' = <<>> /\ pidx' = 0
                     /\ marker' = marker
                     /\ IF ids = <<>>
                        THEN idx' = 0 /\ inst' = "" /\ pc' = "postHook"
                        ELSE idx' = 1 /\ inst' = ids[1] /\ pc' = StartDelete(sf)
                ELSE /\ instanceNameMap' = [id \in Range(ids) |-> FALSE]
                     /\ page' = <<>> /\ pidx' = 0 /\ idx' = 0 /\ inst' = ""
                     /\ marker' = 0
                     /\ pc' = "deleteList"
    /\ UNCHANGED <<provVars, pluginVars, outVars, total, ready, azDist, remoteIDs, seen,
                   dseen, op, count, pool, status, calls>>
    /\ UNCHANGED pureVars

\* fault: scaleIn goes on to the post-scale-in hook after a failed deletion
deleteFailed_goPost(e, ev) == log' = Append(log, ev) /\ pc' = "postHook" /\ err' = e

\* deleteServers / scaleIn on an error of the delete path: the error is returned
\* at once (ev is the call that failed)
deleteFailed(e, ev) == log' = Append(log, ev) /\ Return(e)

\* deleteServers, name-scan mode: one page of the listing
deleteServersPage ==
    /\ pc = "deleteList"
    /\ \/ /\ deleteFailed(Err("list", ""), Ev("list", "", FALSE))
          /\ UNCHANGED <<page, pidx, inst, marker, dseen>>
       \/ /\ log' = Append(log, Ev("list", "", TRUE))
          /\ err' = NoErr
          /\ dseen' = dseen \o ListPage(pool, marker)
          /\ ContinueScan(ListPage(pool, marker), 1, instanceNameMap, stopFirst)
    /\ UNCHANGED <<provVars, pluginVars, outVars, total, ready, azDist, remoteIDs, seen,
                   hook, instanceIDs, instanceNameMap, idx, stopFirst, forceDel,
                   op, count, pool, status, calls>>
    /\ UNCHANGED pureVars

\* fault: the names left unmatched by the scan are not checked
deleteServersCheck_skip ==
    /\ pc = "deleteCheck"
    /\ pc' = "postHook" /\ err' = NoErr
    /\ UNCHANGED <<provVars, pluginVars, scanVars, delVars, outVars,
                   op, count, pool, status, log, calls>>
    /\ UNCHANGED pureVars

\* deleteServers, name-scan mode: the check after the scan; Go iterates the map
\* in no fixed order, so any name still unmatched may be the one reported
deleteServersCheck ==
    /\ pc = "deleteCheck"
    /\ LET missing == {n \in DOMAIN instanceNameMap : ~instanceNameMap[n]}
       IN IF missing = {} THEN pc' = "postHook" /\ err' = NoErr
          ELSE \E n \in missing : Return(Err("notfound", n))
    /\ UNCHANGED <<provVars, pluginVars, scanVars, delVars, outVars,
                   op, count, pool, status, log, calls>>
    /\ UNCHANGED pureVars

\* deleteServers after deleteServer(inst) returned nil
AfterDelete ==
    IF idMapper
    THEN /\ UNCHANGED <<instanceNameMap, page, pidx, marker>>
         /\ IF idx + 1 > Len(instanceIDs)
            THEN idx' = idx /\ inst' = "" /\ pc' = "postHook"
            ELSE idx' = idx + 1 /\ inst' = instanceIDs[idx + 1]
                 /\ pc' = StartDelete(stopFirst)
    ELSE /\ idx' = idx
         /\ instanceNameMap' = [instanceNameMap EXCEPT ![page[pidx].name] = TRUE]
         /\ ContinueScan(page, pidx + 1, instanceNameMap, stopFirst)

\* the provider accepts a stop request for a running (or failed) server
CanStop(s) == s.status \in {"ACTIVE", "ERROR"}
\* the provider accepts a delete request for a server it still has
CanDelete(s) == s.status \notin {"NONE", "DELETED"}

\* deleteServer: startstop.Stop
deleteServer_stop ==
    /\ pc = "stop"
    /\ \/ /\ deleteFailed(Err("stop", inst), Ev("stop", inst, FALSE))
          /\ UNCHANGED srv
       \/ /\ inst \in SrvIds /\ CanStop(srv[inst])
          /\ srv' = [srv EXCEPT ![inst].task = "stopping"]
          /\ log' = Append(log, Ev("stop", inst, TRUE))
          /\ pc' = "waitShutoff" /\ err' = NoErr
    /\ UNCHANGED <<nextId, fips, pluginVars, scanVars, delVars, outVars,
                   op, count, pool, status, calls>>
    /\ UNCHANGED pureVars

\* deleteServer: servers.WaitForStatus(SHUTOFF); a poll that neither succeeds
\* nor fails changes nothing
deleteServer_waitShutoff ==
    /\ pc = "waitShutoff"
    /\ \/ /\ inst \in SrvIds /\ srv[inst].status = "SHUTOFF"
          /\ log' = Append(log, Ev("get", inst, TRUE))
          /\ pc' = "delete" /\ err' = NoErr
       \/ \* GET fails, the server is in ERROR, or the action timeout elapses
          /\ deleteFailed(Err("waitShutoff", inst), Ev("get", inst, FALSE))
    /\ UNCHANGED <<provVars, pluginVars, scanVars, delVars, outVars,
                   op, count, pool, status, calls>>
    /\ UNCHANGED pureVars

\* deleteServer: servers.ForceDelete or servers.Delete
deleteServer_delete ==
    /\ pc = "delete"
    /\ LET force == forceDelete \/ forceDel
           call  == IF force THEN "forcedelete" ELSE "delete"
       IN \/ /\ deleteFailed(Err("delete", inst), Ev(call, inst, FALSE))
             /\ UNCHANGED srv
          \/ /\ inst \in SrvIds /\ CanDelete(srv[inst])
             /\ srv' = [srv EXCEPT ![inst].task = IF force THEN "forcedeleting"
                                                  ELSE "deleting"]
             /\ log' = Append(log, Ev(call, inst, TRUE))
             /\ pc' = "waitGone" /\ err' = NoErr
    /\ UNCHANGED <<nextId, fips, pluginVars, scanVars, delVars, outVars,
                   op, count, pool, status, calls>>
    /\ UNCHANGED pureVars

\* the answers deleteServer's wait accepts: 404, DELETED or SOFT_DELETED
Gone(s) == s.status \in {"NONE", "DELETED", "SOFT_DELETED"}

\* fault: after a wait that failed the next target is taken up
deleteServer_waitGone_goOn ==
    /\ pc = "waitGone"
    /\ \/ /\ Gone(srv[inst])
          /\ log' = Append(log, Ev("get", inst, TRUE))
          /\ err' = NoErr
          /\ IF inst \in DOMAIN fipIDs
             THEN pc' = "fipDelete"
                  /\ UNCHANGED <<instanceNameMap, page, pidx, idx, inst, marker>>
             ELSE AfterDelete
       \/ \* GET fails otherwise than by 404, or the action timeout elapses
          /\ log' = Append(log, Ev("get", inst, FALSE))
          /\ err' = Err("waitGone", inst)
          /\ AfterDelete
    /\ UNCHANGED <<provVars, pluginVars, outVars, total, ready, azDist, remoteIDs, seen,
                   hook, instanceIDs, dseen, stopFirst, forceDel,
                   op, count, pool, status, calls>>
    /\ UNCHANGED pureVars

\* deleteServer: gophercloud.WaitFor until the server is gone; then, with no
\* floating IP recorded for it, deleteServer returns nil
deleteServer_waitGone ==
    /\ pc = "waitGone"
    /\ \/ /\ Gone(srv[inst])
          /\ log' = Append(log, Ev("get", inst, TRUE))
          /\ err' = NoErr
          /\ IF inst \in DOMAIN fipIDs
             THEN pc' = "fipDelete"
                  /\ UNCHANGED <<instanceNameMap, page, pidx, idx, inst, marker>>
             ELSE AfterDelete
       \/ \* GET fails otherwise than by 404, or the action timeout elapses
          /\ deleteFailed(Err("waitGone", inst), Ev("get", inst, FALSE))
          /\ UNCHANGED <<instanceNameMap, page, pidx, idx, inst, marker>>
    /\ UNCHANGED <<provVars, pluginVars, outVars, total, ready, azDist, remoteIDs, seen,
                   hook, instanceIDs, dseen, stopFirst, forceDel,
                   op, count, pool, status, calls>>
    /\ UNCHANGED pureVars

\* fault: the floating IP is deleted but its entry stays in the table
deleteServer_fip_keepEntry ==
    /\ pc = "fipDelete"
    /\ fipIDs' = fipIDs
    /\ \/ /\ deleteFailed(Err("fipDelete", inst), Ev("fipdelete", fipIDs[inst], FALSE))
          /\ UNCHANGED <<fips, instanceNameMap, page, pidx, idx, inst, marker>>
       \/ /\ log' = Append(log, Ev("fipdelete", fipIDs[inst], TRUE))
          /\ fips' = fips \ {fipIDs[inst]}
          /\ err' = NoErr
          /\ AfterDelete
    /\ UNCHANGED <<srv, nextId, clusterUtils, idMapper, stopBeforeDestroy, forceDelete,
                   ignoredStates, avZones, cache, outVars,
                   total, ready, azDist, remoteIDs, seen,
                   hook, instanceIDs, dseen, stopFirst, forceDel,
                   op, count, pool, status, calls>>
    /\ UNCHANGED pureVars

\* deleteServer: the recorded floating IP is dropped from the table, then deleted
deleteServer_fip ==
    /\ pc = "fipDelete"
    /\ fipIDs' = MapDel(fipIDs, inst)
    /\ \/ /\ deleteFailed(Err("fipDelete", inst), Ev("fipdelete", fipIDs[inst], FALSE))
          /\ UNCHANGED <<fips, instanceNameMap, page, pidx, idx, inst, marker>>
       \/ /\ log' = Append(log, Ev("fipdelete", fipIDs[inst], TRUE))
          /\ fips' = fips \ {fipIDs[inst]}
          /\ err' = NoErr
          /\ AfterDelete
    /\ UNCHANGED <<srv, nextId, clusterUtils, idMapper, stopBeforeDestroy, forceDelete,
                   ignoredStates, avZones, cache, outVars,
                   total, ready, azDist, remoteIDs, seen,
                   hook, instanceIDs, dseen, stopFirst, forceDel,
                   op, count, pool, status, calls>>
    /\ UNCHANGED pureVars

\* scaleIn: the post-scale-in hook
scaleIn_post ==
    /\ pc = "postHook"
    /\ \E ok \in BOOLEAN :
         /\ log' = Append(log, Ev("posthook", "", ok))
         /\ hook' = [hook EXCEPT !.post = IF ok THEN "ok" ELSE "failed"]
         /\ Return(IF ok THEN NoErr ELSE Err("posthook", ""))
    /\ UNCHANGED <<provVars, pluginVars, scanVars, outVars,
                   instanceIDs, dseen, instanceNameMap, page, pidx, idx, inst,
                   stopFirst, forceDel, op, count, pool, status, calls>>
    /\ UNCHANGED pureVars

\* ------------------------------------------------- the provider at work
\* The provider carries out what it was asked: a build ends ACTIVE or ERROR, a
\* stop ends SHUTOFF, a delete ends with the server deleted, soft-deleted (only a
\* normal delete) or purged; a deleted server is purged later.
ProviderStep(id) ==
    /\ LET s == srv[id]
       IN \/ /\ s.status = "BUILD" /\ s.task = "none"
             /\ \E st \in {"ACTIVE", "ERROR"} : srv' = [srv EXCEPT ![id].status = st]
          \/ /\ s.task = "stopping" /\ s.status \in {"ACTIVE", "ERROR"}
             /\ srv' = [srv EXCEPT ![id].status = "SHUTOFF", ![id].task = "none"]
          \/ /\ s.task = "deleting"
             /\ srv' = [srv EXCEPT ![id].status = "SOFT_DELETED", ![id].task = "none"]
          \/ /\ s.task \in {"deleting", "forcedeleting"}
             /\ srv' = [srv EXCEPT ![id].status = "DELETED", ![id].task = "none"]
          \/ /\ s.task \in {"deleting", "forcedeleting"} \/ s.status = "DELETED"
             /\ srv' = [srv EXCEPT ![id] = NoServer]
    /\ UNCHANGED <<nextId, fips, pluginVars, scanVars, delVars, outVars, callVars>>
    /\ UNCHANGED pureVars


\* ------------------------------------------------------------ scale out
Absent == "-"     \* a key the config map does not hold

\* cachekey(format, name) with flavorCacheKey, imageCacheKey, networkCacheKey
cachekey(kind, name) == kind \o ":" \o name

\* fault: a named resource is looked up on every call, the cache only written
resolve_nocache(kind, c, cch, look) ==
    IF c.id # Absent
    THEN [ok |-> TRUE, id |-> c.id, cache |-> cch, calls |-> <<>>]
    ELSE IF c.name = Absent
    THEN [ok |-> FALSE, id |-> "", cache |-> cch, calls |-> <<>>]
    ELSE LET key == cachekey(kind, c.name)
         IN IF look = "fail"
            THEN [ok |-> FALSE, id |-> "", cache |-> cch,
                  calls |-> <<Ev("lookup", key, FALSE)>>]
            ELSE [ok |-> TRUE, id |-> look, cache |-> MapPut(cch, key, look),
                  calls |-> <<Ev("lookup", key, TRUE)>>]

\* fault: a configured name is resolved even when the ID is configured too
resolve_nameFirst(kind, c, cch, look) ==
    IF c.name = Absent
    THEN IF c.id # Absent
         THEN [ok |-> TRUE, id |-> c.id, cache |-> cch, calls |-> <<>>]
         ELSE [ok |-> FALSE, id |-> "", cache |-> cch, calls |-> <<>>]
    ELSE LET key == cachekey(kind, c.name)
         IN IF key \in DOMAIN cch
            THEN [ok |-> TRUE, id |-> cch[key], cache |-> cch, calls |-> <<>>]
            ELSE IF look = "fail"
            THEN [ok |-> FALSE, id |-> "", cache |-> cch,
                  calls |-> <<Ev("lookup", key, FALSE)>>]
            ELSE [ok |-> TRUE, id |-> look, cache |-> MapPut(cch, key, look),
                  calls |-> <<Ev("lookup", key, TRUE)>>]

\* fault: a name the provider does not know is remembered with an empty ID
resolve_rememberFailure(kind, c, cch, look) ==
    IF c.id # Absent
    THEN [ok |-> TRUE, id |-> c.id, cache |-> cch, calls |-> <<>>]
    ELSE IF c.name = Absent
    THEN [ok |-> FALSE, id |-> "", cache |-> cch, calls |-> <<>>]
    ELSE LET key == cachekey(kind, c.name)
         IN IF key \in DOMAIN cch
            THEN [ok |-> TRUE, id |-> cch[key], cache |-> cch, calls |-> <<>>]
            ELSE IF look = "fail"
            THEN [ok |-> FALSE, id |-> "", cache |-> MapPut(cch, key, ""),
                  calls |-> <<Ev("lookup", key, FALSE)>>]
            ELSE [ok |-> TRUE, id |-> look, cache |-> MapPut(cch, key, look),
                  calls |-> <<Ev("lookup", key, TRUE)>>]

\* getImageID / getFlavorInfo / getNetworkID on config c = [id, name] with the
\* cache cch; look is the answer of the provider's IDFromName ("fail" or an id)
resolve(kind, c, cch, look) ==
    IF c.id # Absent
    THEN [ok |-> TRUE, id |-> c.id, cache |-> cch, calls |-> <<>>]
    ELSE IF c.name = Absent
    THEN [ok |-> FALSE, id |-> "", cache |-> cch, calls |-> <<>>]
    ELSE LET key == cachekey(kind, c.name)
         IN IF key \in DOMAIN cch
            THEN [ok |-> TRUE, id |-> cch[key], cache |-> cch, calls |-> <<>>]
            ELSE IF look = "fail"
            THEN [ok |-> FALSE, id |-> "", cache |-> cch,
                  calls |-> <<Ev("lookup", key, FALSE)>>]
            ELSE [ok |-> TRUE, id |-> look, cache |-> MapPut(cch, key, look),
                  calls |-> <<Ev("lookup", key, TRUE)>>]

\* fault: name and name_prefix are compared after the resources are resolved
getCreateData_nameLast(c, cch, look) ==
    LET img == resolve("image", c.image, cch, look.image)
        flv == resolve("flavor", c.flavor, img.cache, look.flavor)
        net == resolve("network", c.network, flv.cache, look.network)
        wantFip == c.fip \notin {Absent, ""}
        data == [name |-> IF c.name = Absent THEN "" ELSE c.name,
                 namePrefix |-> IF c.name_prefix = Absent THEN "" ELSE c.name_prefix,
                 pool |-> pool, tags |-> c.tags,
                 imageID |-> img.id, flavorID |-> flv.id, networkUUID |-> net.id,
                 floatingIPPool |-> IF wantFip THEN look.fip ELSE "",
                 availabilityZones |-> c.azs,
                 evenlydistributeAZ |-> (c.esaz \notin {Absent, ""}),
                 userDataTemplate |-> IF c.tmpl = Absent THEN "" ELSE c.tmpl]
        \* a key that is missing is a configuration error, a name the provider
        \* does not know a resolution error
        kindOf(r) == IF r.id = Absent /\ r.name = Absent THEN "config" ELSE "resolve"
        fail(e, cc, cl) == [ok |-> FALSE, err |-> e, data |-> NoCommon,
                            cache |-> cc, calls |-> cl]
    IN IF ~img.ok THEN fail(Err(kindOf(c.image), "image"), img.cache, img.calls)
       ELSE IF ~flv.ok THEN fail(Err(kindOf(c.flavor), "flavor"), flv.cache,
                                 img.calls \o flv.calls)
       ELSE IF ~net.ok THEN fail(Err(kindOf(c.network), "network"), net.cache,
                                 img.calls \o flv.calls \o net.calls)
       ELSE IF data.name # "" /\ data.namePrefix # ""
       THEN fail(Err("config", "name"), net.cache, img.calls \o flv.calls \o net.calls)
       ELSE IF wantFip /\ look.fip = "fail"
       THEN fail(Err("resolve", "fip"), net.cache,
                 img.calls \o flv.calls \o net.calls \o <<Ev("fiplookup", c.fip, FALSE)>>)
       ELSE IF data.userDataTemplate = "nofile"
       THEN fail(Err("config", "template"), net.cache,
                 img.calls \o flv.calls \o net.calls
                   \o (IF wantFip THEN <<Ev("fiplookup", c.fip, TRUE)>> ELSE <<>>))
       ELSE [ok |-> TRUE, err |-> NoErr, data |-> data, cache |-> net.cache,
             calls |-> img.calls \o flv.calls \o net.calls
                         \o (IF wantFip THEN <<Ev("fiplookup", c.fip, TRUE)>> ELSE <<>>)]

\* getCreateData(config): [ok, err, data, cache, calls]. look = [image, flavor,
\* network, fip] are the provider's answers to the lookups it may issue.
getCreateData(c, cch, look) ==
    LET img == resolve("image", c.image, cch, look.image)
        flv == resolve("flavor", c.flavor, img.cache, look.flavor)
        net == resolve("network", c.network, flv.cache, look.network)
        wantFip == c.fip \notin {Absent, ""}
        data == [name |-> IF c.name = Absent THEN "" ELSE c.name,
                 namePrefix |-> IF c.name_prefix = Absent THEN "" ELSE c.name_prefix,
                 pool |-> pool, tags |-> c.tags,
                 imageID |-> img.id, flavorID |-> flv.id, networkUUID |-> net.id,
                 floatingIPPool |-> IF wantFip THEN look.fip ELSE "",
                 availabilityZones |-> c.azs,
                 evenlydistributeAZ |-> (c.esaz \notin {Absent, ""}),
                 userDataTemplate |-> IF c.tmpl = Absent THEN "" ELSE c.tmpl]
        \* a key that is missing is a configuration error, a name the provider
        \* does not know a resolution error
        kindOf(r) == IF r.id = Absent /\ r.name = Absent THEN "config" ELSE "resolve"
        fail(e, cc, cl) == [ok |-> FALSE, err |-> e, data |-> NoCommon,
                            cache |-> cc, calls |-> cl]
    IN IF data.name # "" /\ data.namePrefix # ""
       THEN fail(Err("config", "name"), cch, <<>>)
       ELSE IF ~img.ok THEN fail(Err(kindOf(c.image), "image"), img.cache, img.calls)
       ELSE IF ~flv.ok THEN fail(Err(kindOf(c.flavor), "flavor"), flv.cache,
                                 img.calls \o flv.calls)
       ELSE IF ~net.ok THEN fail(Err(kindOf(c.network), "network"), net.cache,
                                 img.calls \o flv.calls \o net.calls)
       ELSE IF wantFip /\ look.fip = "fail"
       THEN fail(Err("resolve", "fip"), net.cache,
                 img.calls \o flv.calls \o net.calls \o <<Ev("fiplookup", c.fip, FALSE)>>)
       ELSE IF data.userDataTemplate = "nofile"
       THEN fail(Err("config", "template"), net.cache,
                 img.calls \o flv.calls \o net.calls
                   \o (IF wantFip THEN <<Ev("fiplookup", c.fip, TRUE)>> ELSE <<>>))
       ELSE [ok |-> TRUE, err |-> NoErr, data |-> data, cache |-> net.cache,
             calls |-> img.calls \o flv.calls \o net.calls
                         \o (IF wantFip THEN <<Ev("fiplookup", c.fip, TRUE)>> ELSE <<>>)]

\* sort.SliceStable by Count: s is sorted, x goes behind the entries not above it
InsertStable(s, x) ==
    LET p == Cardinality({i \in 1..Len(s) : s[i].Count <= x.Count})
    IN SubSeq(s, 1, p) \o <<x>> \o SubSeq(s, p + 1, Len(s))

\* fault: the zones are left in the order of the list
SortStable_unsorted(seq, i, acc) == seq

RECURSIVE SortStable(_, _, _)
SortStable(seq, i, acc) ==
    IF i > Len(seq) THEN acc ELSE SortStable(seq, i + 1, InsertStable(acc, seq[i]))

\* fault: the cursor never goes back to the first zone before the last one
RECURSIVE distributeLoop_noReturn(_, _, _, _)
distributeLoop_noReturn(azID, cur, ccd, i) ==
    IF i > Len(ccd) THEN ccd
    ELSE LET cd == [ccd EXCEPT ![i].availabilityzone = azID[cur].AZName]
             az == [azID EXCEPT ![cur].Count = @ + 1]
             nx == IF cur = Len(az) THEN 1
                   ELSE IF az[cur].Count > az[cur + 1].Count THEN cur + 1
                   ELSE cur
         IN distributeLoop_noReturn(az, nx, cd, i + 1)

\* distributeAZ's loop from slot i with the cursor at cur (1-based)
RECURSIVE distributeLoop(_, _, _, _)
distributeLoop(azID, cur, ccd, i) ==
    IF i > Len(ccd) THEN ccd
    ELSE LET cd == [ccd EXCEPT ![i].availabilityzone = azID[cur].AZName]
             az == [azID EXCEPT ![cur].Count = @ + 1]
             nx == IF cur = Len(az) THEN 1
                   ELSE IF az[cur].Count > az[cur + 1].Count THEN cur + 1
                   ELSE IF cur # 1 /\ az[cur].Count >= az[1].Count THEN 1
                   ELSE cur
         IN distributeLoop(az, nx, cd, i + 1)

\* fault: the zones of the count map that left the list are still served
distributeAZ_allZones(azList, dist, ccd) ==
    LET extra == Asc({k \in 1..MaxAZ : AZ(k) \in DOMAIN dist \ Range(azList)})
        all   == azList \o [j \in 1..Len(extra) |-> AZ(extra[j])]
        azID  == SortStable([i \in 1..Len(all) |->
                               [AZName |-> all[i], Count |-> MapGet(dist, all[i])]],
                            1, <<>>)
    IN IF Len(azList) = 0 THEN ccd ELSE distributeLoop(azID, 1, ccd, 1)

\* distributeAZ(azList, azDist, ccd): ccd with the assigned zones
distributeAZ(azList, dist, ccd) ==
    LET azID == SortStable([i \in 1..Len(azList) |->
                              [AZName |-> azList[i], Count |-> MapGet(dist, azList[i])]],
                           1, <<>>)
    IN IF Len(azID) = 0 THEN ccd ELSE distributeLoop(azID, 1, ccd, 1)

\* fault: the candidate list itself is sorted by count
distributeAZ_args_sorted(azList, dist) ==
    LET azID == SortStable([i \in 1..Len(azList) |->
                              [AZName |-> azList[i], Count |-> MapGet(dist, azList[i])]],
                           1, <<>>)
    IN [azList |-> [i \in 1..Len(azID) |-> azID[i].AZName], azDist |-> dist]

\* the candidate list and the count map as distributeAZ leaves them: the counts
\* are copied into azID, which alone is sorted and counted up; reading the map
\* for a zone it does not hold adds no entry
distributeAZ_args(azList, dist) == [azList |-> azList, azDist |-> dist]

\* generateUUID for slot i: a value carried by no server and by no other slot
\* (the provider's next free index plus the slot's offset)
generateUUID(i) == nextId + i - 1

\* createServers up to its creation loop: the slots of the batch
customCreateData(cm, n, dist) ==
    LET list == [i \in 1..n |->
                   [name |-> IF cm.namePrefix # "" THEN UniqName(generateUUID(i))
                             ELSE cm.name,
                    randomUUID |-> generateUUID(i),
                    availabilityzone |-> ""]]
        azList == IF Len(cm.availabilityZones) > 0 THEN cm.availabilityZones
                  ELSE avZones
    IN IF cm.evenlydistributeAZ THEN distributeAZ(azList, dist, list) ELSE list

\* template.ParseFiles and template.Execute of dataToCreateOpts on the template
\* data of a slot: "bad" is a file that does not parse, "badOdd" and "badEven"
\* are templates whose rendering fails on the data of some slots only
templateOk(t, cu) ==
    CASE t = "bad"     -> FALSE
      [] t = "badOdd"  -> cu.randomUUID % 2 = 0
      [] t = "badEven" -> cu.randomUUID % 2 = 1
      [] OTHER         -> TRUE

\* fault: a slot without a zone is sent to the default zone by name
dataToCreateOpts_defaultZone(cm, cu) ==
    [ok   |-> templateOk(cm.userDataTemplate, cu),
     opts |-> [Name |-> IF cu.name # "" THEN cu.name ELSE cm.name,
               AvailabilityZone |-> IF cu.availabilityzone = "" THEN DefaultAZ
                                    ELSE cu.availabilityzone,
               Tags |-> Append(cm.tags, poolTag(cm.pool))]]

\* fault: the request carries the configured tags only
dataToCreateOpts_noPoolTag(cm, cu) ==
    [ok   |-> templateOk(cm.userDataTemplate, cu),
     opts |-> [Name |-> IF cu.name # "" THEN cu.name ELSE cm.name,
               AvailabilityZone |-> cu.availabilityzone,
               Tags |-> cm.tags]]

\* dataToCreateOpts(common, custom): [ok, opts]
dataToCreateOpts(cm, cu) ==
    [ok   |-> templateOk(cm.userDataTemplate, cu),
     opts |-> [Name |-> IF cu.name # "" THEN cu.name ELSE cm.name,
               AvailabilityZone |-> cu.availabilityzone,
               Tags |-> Append(cm.tags, poolTag(cm.pool))]]

AnyLook == [image |-> "img1", flavor |-> "flv1", network |-> "net1", fip |-> "ext1"]

BaseConfig ==
    [name |-> CfgName, name_prefix |-> Absent,
     image |-> [id |-> "img0", name |-> Absent],
     flavor |-> [id |-> "flv0", name |-> Absent],
     network |-> [id |-> "net0", name |-> Absent],
     fip |-> Absent, azs |-> <<>>, esaz |-> Absent, tmpl |-> Absent, tags |-> <<>>]

\* the target configurations of the scale-out calls
CreateConfigs ==
    {[BaseConfig EXCEPT !.name = nm[1], !.name_prefix = nm[2], !.fip = f] :
        nm \in {<<CfgName, Absent>>, <<Absent, "p">>}, f \in {Absent, "ext"}}
    \cup {[BaseConfig EXCEPT !.name_prefix = "p"],
          [BaseConfig EXCEPT !.tmpl = "bad"],
          [BaseConfig EXCEPT !.tmpl = "badOdd"],
          [BaseConfig EXCEPT !.tmpl = "badEven"]}

Looks == {AnyLook, [AnyLook EXCEPT !.fip = "fail"]}

\* scaleOut: getCreateData, then createServers up to its creation loop, for a
\* target configuration of cfgs and provider answers of looks
scaleOutWith(cfgs, looks) ==
    /\ pc = "scaleOut"
    /\ \E c \in cfgs, look \in looks :
       LET d == calculateDirection(total, count)
           r == getCreateData(c, cache, look)
       IN /\ cache' = r.cache
          /\ log' = log \o r.calls
          /\ IF r.ok
             THEN /\ common' = r.data
                  /\ customCDList' = customCreateData(r.data, d[1], azDist)
                  /\ IF d[1] = 0 THEN idx' = 0 /\ Return(NoErr)
                     ELSE idx' = 1 /\ pc' = "create" /\ err' = NoErr
             ELSE /\ common' = NoCommon /\ customCDList' = <<>> /\ idx' = 0
                  /\ Return(r.err)
    /\ UNCHANGED <<provVars, clusterUtils, idMapper, stopBeforeDestroy, forceDelete,
                   ignoredStates, avZones, fipIDs, scanVars,
                   hook, instanceIDs, dseen, instanceNameMap, page, pidx, inst,
                   stopFirst, forceDel, op, count, pool, status, calls>>
    /\ UNCHANGED pureVars

scaleOut == scaleOutWith(CreateConfigs, Looks)

\* fault: the loop goes on with the next slot after a failed one
createFailed_continue(e, evs) ==
    /\ log' = log \o evs
    /\ IF idx + 1 > Len(customCDList) THEN idx' = idx /\ Return(e)
       ELSE idx' = idx + 1 /\ pc' = "create" /\ err' = e

\* fault: the instance whose wait or floating-IP attach failed is deleted again
createFailed_rollback(e, evs) ==
    /\ log' = log \o evs \o (IF e.kind \in {"waitActive", "fipAttach"}
                             THEN <<Ev("delete", e.arg, TRUE)>> ELSE <<>>)
    /\ Return(e) /\ idx' = idx

\* fault: the slot whose creation failed is tried again
createFailed_retry(e, evs) ==
    log' = log \o evs /\ pc' = "create" /\ err' = e /\ idx' = idx

\* createServers when createServer returned an error for slot idx: the error is
\* returned at once (evs are the calls of the failed phase)
createFailed(e, evs) == log' = log \o evs /\ Return(e) /\ idx' = idx

\* createServers after createServer returned nil for slot idx
AfterCreate ==
    IF idx + 1 > Len(customCDList) THEN idx' = idx /\ Return(NoErr)
    ELSE idx' = idx + 1 /\ pc' = "create" /\ err' = NoErr

\* fault: the next slot is taken up without the wait for ACTIVE
createServer_create_noWait ==
    /\ pc = "create"
    /\ LET o == dataToCreateOpts(common, customCDList[idx])
       IN IF ~o.ok
          THEN /\ createFailed(Err("opts", ToString(idx)), <<>>)
               /\ UNCHANGED <<srv, nextId, inst>>
          ELSE \/ /\ createFailed(Err("create", ToString(idx)),
                                  <<Ev("create", "", FALSE)>>)
                  /\ UNCHANGED <<srv, nextId, inst>>
               \/ /\ nextId <= MaxSrv
                  /\ srv' = [srv EXCEPT ![SrvId(nextId)] =
                               [name   |-> o.opts.Name,
                                status |-> "BUILD",
                                az     |-> IF o.opts.AvailabilityZone = "" THEN DefaultAZ
                                           ELSE o.opts.AvailabilityZone,
                                tags   |-> Range(o.opts.Tags),
                                owner  |-> pool,
                                task   |-> "none"]]
                  /\ nextId' = nextId + 1
                  /\ inst' = SrvId(nextId)
                  /\ log' = Append(log, Ev("create", SrvId(nextId), TRUE))
                  /\ AfterCreate
    /\ UNCHANGED <<fips, pluginVars, scanVars, outVars,
                   hook, instanceIDs, dseen, instanceNameMap, page, pidx,
                   stopFirst, forceDel, op, count, pool, status, calls>>
    /\ UNCHANGED pureVars

\* fault: the create request is submitted although the options could not be built
createServer_create_noCheck ==
    /\ pc = "create"
    /\ LET o == dataToCreateOpts(common, customCDList[idx])
       IN \/ /\ createFailed(Err("create", ToString(idx)),
                              <<Ev("create", "", FALSE)>>)
             /\ UNCHANGED <<srv, nextId, inst>>
          \/ /\ nextId <= MaxSrv
             /\ srv' = [srv EXCEPT ![SrvId(nextId)] =
                          [name   |-> o.opts.Name,
                           status |-> "BUILD",
                           az     |-> IF o.opts.AvailabilityZone = "" THEN DefaultAZ
                                      ELSE o.opts.AvailabilityZone,
                           tags   |-> Range(o.opts.Tags),
                           owner  |-> pool,
                           task   |-> "none"]]
             /\ nextId' = nextId + 1
             /\ inst' = SrvId(nextId)
             /\ log' = Append(log, Ev("create", SrvId(nextId), TRUE))
             /\ pc' = "waitActive" /\ err' = NoErr /\ idx' = idx
    /\ UNCHANGED <<fips, pluginVars, scanVars, outVars,
                   hook, instanceIDs, dseen, instanceNameMap, page, pidx,
                   stopFirst, forceDel, op, count, pool, status, calls>>
    /\ UNCHANGED pureVars

\* createServer: dataToCreateOpts and servers.Create
createServer_create ==
    /\ pc = "create"
    /\ LET o == dataToCreateOpts(common, customCDList[idx])
       IN IF ~o.ok
          THEN /\ createFailed(Err("opts", ToString(idx)), <<>>)
               /\ UNCHANGED <<srv, nextId, inst>>
          ELSE \/ /\ createFailed(Err("create", ToString(idx)),
                                  <<Ev("create", "", FALSE)>>)
                  /\ UNCHANGED <<srv, nextId, inst>>
               \/ /\ nextId <= MaxSrv
                  /\ srv' = [srv EXCEPT ![SrvId(nextId)] =
                               [name   |-> o.opts.Name,
                                status |-> "BUILD",
                                az     |-> IF o.opts.AvailabilityZone = "" THEN DefaultAZ
                                           ELSE o.opts.AvailabilityZone,
                                tags   |-> Range(o.opts.Tags),
                                owner  |-> pool,
                                task   |-> "none"]]
                  /\ nextId' = nextId + 1
                  /\ inst' = SrvId(nextId)
                  /\ log' = Append(log, Ev("create", SrvId(nextId), TRUE))
                  /\ pc' = "waitActive" /\ err' = NoErr /\ idx' = idx
    /\ UNCHANGED <<fips, pluginVars, scanVars, outVars,
                   hook, instanceIDs, dseen, instanceNameMap, page, pidx,
                   stopFirst, forceDel, op, count, pool, status, calls>>
    /\ UNCHANGED pureVars

\* fault: the wait for ACTIVE has no timeout and ends only on ACTIVE or ERROR
createServer_waitActive_noTimeout ==
    /\ pc = "waitActive"
    /\ \/ /\ srv[inst].status = "ACTIVE"
          /\ log' = Append(log, Ev("get", inst, TRUE))
          /\ IF common.floatingIPPool # ""
             THEN pc' = "fipAttach" /\ err' = NoErr /\ idx' = idx
             ELSE AfterCreate
       \/ /\ srv[inst].status = "ERROR"
          /\ createFailed(Err("waitActive", inst), <<Ev("get", inst, FALSE)>>)
    /\ UNCHANGED <<provVars, pluginVars, scanVars, outVars,
                   hook, instanceIDs, dseen, instanceNameMap, page, pidx, inst,
                   stopFirst, forceDel, op, count, pool, status, calls>>
    /\ UNCHANGED pureVars

\* createServer: servers.WaitForStatus(ACTIVE); then, with no floating-IP pool,
\* createServer returns nil
createServer_waitActive ==
    /\ pc = "waitActive"
    /\ \/ /\ srv[inst].status = "ACTIVE"
          /\ log' = Append(log, Ev("get", inst, TRUE))
          /\ IF common.floatingIPPool # ""
             THEN pc' = "fipAttach" /\ err' = NoErr /\ idx' = idx
             ELSE AfterCreate
       \/ createFailed(Err("waitActive", inst), <<Ev("get", inst, FALSE)>>)
    /\ UNCHANGED <<provVars, pluginVars, scanVars, outVars,
                   hook, instanceIDs, dseen, instanceNameMap, page, pidx, inst,
                   stopFirst, forceDel, op, count, pool, status, calls>>
    /\ UNCHANGED pureVars

FipId(id) == "f" \o id

\* fault: a floating-IP failure is passed over and the batch goes on
createServer_fip_passOver ==
    /\ pc = "fipAttach"
    /\ \/ /\ log' = log \o <<Ev("port", inst, FALSE)>>
          /\ AfterCreate
          /\ UNCHANGED <<fips, fipIDs>>
       \/ /\ log' = log \o <<Ev("port", inst, TRUE), Ev("fipcreate", inst, FALSE)>>
          /\ AfterCreate
          /\ UNCHANGED <<fips, fipIDs>>
       \/ /\ log' = log \o <<Ev("port", inst, TRUE), Ev("fipcreate", inst, TRUE)>>
          /\ fips' = fips \cup {FipId(inst)}
          /\ fipIDs' = MapPut(fipIDs, inst, FipId(inst))
          /\ AfterCreate
    /\ UNCHANGED <<srv, nextId, clusterUtils, idMapper, stopBeforeDestroy, forceDelete,
                   ignoredStates, avZones, cache, scanVars, outVars,
                   hook, instanceIDs, dseen, instanceNameMap, page, pidx, inst,
                   stopFirst, forceDel, op, count, pool, status, calls>>
    /\ UNCHANGED pureVars

\* createServer: createAndAttachFloatingIP
createServer_fip ==
    /\ pc = "fipAttach"
    /\ \/ /\ createFailed(Err("fipAttach", inst), <<Ev("port", inst, FALSE)>>)
          /\ UNCHANGED <<fips, fipIDs>>
       \/ /\ createFailed(Err("fipAttach", inst),
                          <<Ev("port", inst, TRUE), Ev("fipcreate", inst, FALSE)>>)
          /\ UNCHANGED <<fips, fipIDs>>
       \/ /\ log' = log \o <<Ev("port", inst, TRUE), Ev("fipcreate", inst, TRUE)>>
          /\ fips' = fips \cup {FipId(inst)}
          /\ fipIDs' = MapPut(fipIDs, inst, FipId(inst))
          /\ AfterCreate
    /\ UNCHANGED <<srv, nextId, clusterUtils, idMapper, stopBeforeDestroy, forceDelete,
                   ignoredStates, avZones, cache, scanVars, outVars,
                   hook, instanceIDs, dseen, instanceNameMap, page, pidx, inst,
                   stopFirst, forceDel, op, count, pool, status, calls>>
    /\ UNCHANGED pureVars

\* ----------------------------------------------------------------- Spec
\* the plugin configurations tried: <<fail, zonesOk, stop, force, ignored, idAttr>>
SetConfigInputs ==
    {<<"", TRUE, f[1], f[2], f[3], idAttr>> :
        f \in {<<FALSE, FALSE, <<>>>>, <<TRUE, FALSE, <<>>>>, <<FALSE, TRUE, <<>>>>,
               <<FALSE, FALSE, <<"error">>>>},
        idAttr \in BOOLEAN}
    \cup {<<"auth", FALSE, TRUE, TRUE, <<>>, TRUE>>,
          <<"timeout", TRUE, TRUE, TRUE, <<>>, TRUE>>,
          <<"utils", FALSE, TRUE, FALSE, <<"error">>, TRUE>>,
          <<"", TRUE, FALSE, TRUE, <<"ERROR", "active">>, FALSE>>}

Next ==
    \/ \E c \in SetConfigInputs : SetConfig(c[1], c[2], c[3], c[4], c[5], c[6])
    \/ \E n \in {DryRunCount} \cup 0..MaxDesired, hasPool \in BOOLEAN : Scale(n, hasPool)
    \/ \E precheck \in {"error", "notready", "ready"}, hasPool \in BOOLEAN :
         Status(precheck, hasPool)
    \/ countServersPage
    \/ StatusResult
    \/ ScaleDirection
    \/ scaleIn
    \/ deleteServersPage
    \/ deleteServersCheck
    \/ deleteServer_stop
    \/ deleteServer_waitShutoff
    \/ deleteServer_delete
    \/ deleteServer_waitGone
    \/ deleteServer_fip
    \/ scaleIn_post
    \/ scaleOut
    \/ createServer_create
    \/ createServer_waitActive
    \/ createServer_fip
    \/ \E id \in SrvIds : ProviderStep(id)

Spec == Init /\ [][Next]_vars

\* the steps of a call in flight: every step of the plugin but the entry points
CallStep ==
    \/ countServersPage
    \/ StatusResult
    \/ ScaleDirection
    \/ scaleIn
    \/ deleteServersPage
    \/ deleteServersCheck
    \/ deleteServer_stop
    \/ deleteServer_waitShutoff
    \/ deleteServer_delete
    \/ deleteServer_waitGone
    \/ deleteServer_fip
    \/ scaleIn_post
    \/ scaleOut
    \/ createServer_create
    \/ createServer_waitActive
    \/ createServer_fip

\* The goroutine of a call keeps running: each provider or hook call it makes
\* answers or is cut by its timeout, and a polling loop that has not seen its
\* state leaves by the action timeout. Neither the framework (a next call) nor
\* the provider (the progress of a build, stop or delete) is bound to act.
NextLive ==
    \/ \E stop \in BOOLEAN, idAttr \in BOOLEAN :
         SetConfig("", TRUE, stop, FALSE, <<>>, idAttr)
    \/ \E n \in 0..MaxDesired : Scale(n, TRUE)
    \/ Status("ready", TRUE)
    \/ CallStep
    \/ \E id \in SrvIds : ProviderStep(id)

SpecLive == Init /\ [][NextLive]_vars /\ WF_vars(CallStep)


\* ------------------------------- scale-out with names, zones and lookups
ByName(n)   == [id |-> Absent, name |-> n]
ByBoth(i, n) == [id |-> i, name |-> n]

\* target configurations that name their image, flavor and network (the three
\* by the same name "x"), give both an ID and a name, choose zones, set both
\* name and name_prefix, or leave out the keys of a resource
OutConfigs ==
    {BaseConfig,
     [BaseConfig EXCEPT !.image = ByName("x"), !.flavor = ByName("x"),
                        !.network = ByName("x")],
     [BaseConfig EXCEPT !.image = ByName("x")],
     [BaseConfig EXCEPT !.image = ByBoth("img0", "x"), !.flavor = ByBoth("flv0", "x"),
                        !.network = ByBoth("net0", "x")],
     [BaseConfig EXCEPT !.azs = <<AZ(1)>>],
     [BaseConfig EXCEPT !.azs = <<AZ(1)>>, !.esaz = "1"],
     [BaseConfig EXCEPT !.esaz = "1"],
     [BaseConfig EXCEPT !.name_prefix = "p", !.image = ByName("x")],
     [BaseConfig EXCEPT !.image = ByName("x"), !.flavor = [id |-> Absent, name |-> Absent]],
     [BaseConfig EXCEPT !.image = [id |-> Absent, name |-> Absent]]}

\* the provider's name-to-ID mapping at the time of the call: it may change
\* between calls, and a lookup may fail
OutLooks ==
    {AnyLook,
     [AnyLook EXCEPT !.image = "img2", !.flavor = "flv2", !.network = "net2"],
     [AnyLook EXCEPT !.flavor = "fail"],
     [AnyLook EXCEPT !.image = "fail"],
     [AnyLook EXCEPT !.network = "fail"]}

scaleOutNamed == scaleOutWith(OutConfigs, OutLooks)

\* the plugin configurations of this specification: name-scan mode, with and
\* without discovered zones, and a reload that fails
OutSetConfigInputs ==
    {<<"", TRUE, FALSE, FALSE, <<>>, FALSE>>,
     <<"", FALSE, FALSE, FALSE, <<>>, FALSE>>,
     <<"auth", FALSE, FALSE, FALSE, <<>>, FALSE>>}

NextOut ==
    \/ \E c \in OutSetConfigInputs : SetConfig(c[1], c[2], c[3], c[4], c[5], c[6])
    \/ \E n \in 0..MaxDesired : Scale(n, TRUE)
    \/ Status("ready", TRUE)
    \/ countServersPage
    \/ StatusResult
    \/ ScaleDirection
    \/ scaleIn
    \/ deleteServersPage
    \/ deleteServersCheck
    \/ deleteServer_stop
    \/ deleteServer_waitShutoff
    \/ deleteServer_delete
    \/ deleteServer_waitGone
    \/ scaleIn_post
    \/ scaleOutNamed
    \/ createServer_create
    \/ createServer_waitActive
    \/ \E id \in SrvIds : ProviderStep(id)

SpecOut == Init /\ [][NextOut]_vars

\* ------------------------------------------------- two pools, with tags
Pools == {Pool, OtherPool}

\* target configurations with and without configured tags; a configured tag
\* may spell the pool tag of another pool
TagConfigs ==
    {BaseConfig,
     [BaseConfig EXCEPT !.tags = <<"role:x">>],
     [BaseConfig EXCEPT !.tags = <<poolTag(OtherPool)>>]}

scaleOutTagged == scaleOutWith(TagConfigs, {AnyLook})

NextTag ==
    \/ SetConfig("", TRUE, FALSE, FALSE, <<>>, FALSE)
    \/ \E n \in 0..MaxDesired, p \in Pools : ScaleOn(n, TRUE, p)
    \/ \E p \in Pools : StatusOn("ready", TRUE, p)
    \/ countServersPage
    \/ StatusResult
    \/ ScaleDirection
    \/ scaleIn
    \/ deleteServersPage
    \/ deleteServersCheck
    \/ deleteServer_stop
    \/ deleteServer_waitShutoff
    \/ deleteServer_delete
    \/ deleteServer_waitGone
    \/ scaleIn_post
    \/ scaleOutTagged
    \/ createServer_create
    \/ createServer_waitActive
    \/ \E id \in SrvIds : ProviderStep(id)

SpecTag == Init /\ [][NextTag]_vars

\* ------------------------------------------ a pool that is already there
\* the pool before the first call: up to MaxSrv ACTIVE servers of the pool, each
\* named by the configured name or by a unique name
InitAgain ==
    /\ \E n \in 0..MaxSrv :
       \E uniq \in [1..n -> BOOLEAN] :
         srv = [id \in SrvIds |->
                  IF IdxOf(id) <= n
                  THEN InitServer(IdxOf(id), uniq[IdxOf(id)], "ACTIVE", FALSE)
                  ELSE NoServer]
    /\ nextId = 1 + Cardinality({k \in SrvIdx : srv[SrvId(k)].status # "NONE"})
    /\ InitPlugin
    /\ fin = <<>> /\ fout = <<>>

scaleOutBase == scaleOutWith({BaseConfig}, {AnyLook})

\* Scale calls one after the other, in ID mode or in name-scan mode
NextAgain ==
    \/ \E idAttr \in BOOLEAN : SetConfig("", TRUE, FALSE, FALSE, <<>>, idAttr)
    \/ \E n \in 0..MaxDesired : Scale(n, TRUE)
    \/ countServersPage
    \/ ScaleDirection
    \/ scaleIn
    \/ deleteServersPage
    \/ deleteServersCheck
    \/ deleteServer_stop
    \/ deleteServer_waitShutoff
    \/ deleteServer_delete
    \/ deleteServer_waitGone
    \/ scaleIn_post
    \/ scaleOutBase
    \/ createServer_create
    \/ createServer_waitActive
    \/ \E id \in SrvIds : ProviderStep(id)

SpecAgain == InitAgain /\ [][NextAgain]_vars

\* ------------------------------------------- the pure functions alone
mainVars == <<provVars, pluginVars, scanVars, delVars, outVars, callVars>>

NoPool == srv = [id \in SrvIds |-> NoServer] /\ nextId = 1

MaxArg == 6    \* calculateDirection is tried on counts of -MaxArg..MaxArg

\* calculateDirection on every pair <<current, desired>> of the range
InitDir ==
    /\ NoPool /\ InitPlugin
    /\ fin \in (-MaxArg..MaxArg) \X (-MaxArg..MaxArg)
    /\ fout = <<>>

Direction ==
    /\ fout = <<>>
    /\ fout' = calculateDirection(fin[1], fin[2])
    /\ UNCHANGED <<mainVars, fin>>

SpecDir == InitDir /\ [][Direction]_vars

MaxList == 3   \* longest listing countServers is tried on

\* the i-th server of a listing
ListedServer(i, st, az) ==
    [id |-> SrvId(i), name |-> UniqName(i), az |-> az, status |-> st]

\* ignored_states values, as split by configurePlugin
IgnoreInputs == {<<>>, <<"error">>, <<"shutoff", "ERROR">>, <<"SOFT_DELETED", "active">>,
                 <<"build">>}

\* countServers on every listing of at most MaxList servers, for the ignore
\* sets configurePlugin builds and both identity functions
InitCount ==
    /\ NoPool /\ InitPlugin
    /\ \E n \in 0..MaxList :
       \E st \in [1..n -> Statuses], az \in [1..n -> {AZ(1), AZ(2)}],
          l \in IgnoreInputs, idm \in BOOLEAN :
         fin = [list |-> [i \in 1..n |-> ListedServer(i, st[i], az[i])],
                ign  |-> ignoreLoop(l, 1, {}).set,
                idm  |-> idm, pos |-> 0, done |-> FALSE]
    /\ fout = EmptyCount

\* one page of the listing and countServers' callback on it
CountPage ==
    /\ ~fin.done
    /\ LET pg == SubSeq(fin.list, fin.pos + 1, Min(fin.pos + PageSize, Len(fin.list)))
       IN /\ fout' = countPage(fout, pg, fin.ign, fin.idm)
          /\ fin' = [fin EXCEPT !.pos = fin.pos + Len(pg), !.done = LastPage(pg)]
    /\ UNCHANGED mainVars

SpecCount == InitCount /\ [][CountPage]_vars

AZNames == {AZ(k) : k \in 1..MaxAZ}

\* the slots createServers hands to distributeAZ
EmptySlots(n) ==
    [i \in 1..n |-> [name |-> "test", randomUUID |-> i, availabilityzone |-> ""]]

\* distributeAZ on every ordered list of distinct zones, every count map on a
\* subset of the zones and every batch size
InitAZ ==
    /\ NoPool /\ InitPlugin
    /\ \E k \in 0..MaxAZ, D \in SUBSET AZNames, n \in 0..MaxSlots :
       \E l \in Perms(AZNames, k), d \in [D -> 1..MaxAZCount] :
         fin = [azList |-> l, dist |-> d, n |-> n]
    /\ fout = <<>>

\* distributeAZ on the slots, then the create options of each slot
Distribute ==
    /\ fout = <<>>
    /\ LET ccd == distributeAZ(fin.azList, fin.dist, EmptySlots(fin.n))
           cm  == [NoCommon EXCEPT !.name = CfgName, !.pool = Pool]
       IN fout' = <<ccd, [i \in DOMAIN ccd |-> dataToCreateOpts(cm, ccd[i]).opts],
                    distributeAZ_args(fin.azList, fin.dist)>>
    /\ UNCHANGED <<mainVars, fin>>

SpecAZ == InitAZ /\ [][Distribute]_vars

\* how a target configuration may give a resource of a kind
Resources(id) == {[id |-> id, name |-> Absent], ByName("x"), ByBoth(id, "x"),
                  [id |-> Absent, name |-> Absent]}

\* the provider's answers to a lookup of a kind
Answers(a, b) == {a, b, "fail"}

\* the caches the plugin may hold: some of the three names resolved earlier
Caches ==
    UNION {[K -> {"img1", "img2", "flv1", "flv2", "net1", "net2"}] :
             K \in SUBSET {cachekey("image", "x"), cachekey("flavor", "x"),
                           cachekey("network", "x")}}

\* getCreateData on every way to configure image, flavor and network, every
\* cache and every answer of the provider
InitResolve ==
    /\ NoPool /\ InitPlugin
    /\ \E im \in Resources("img0"), fl \in Resources("flv0"), nw \in Resources("net0"),
          cch \in Caches,
          li \in Answers("img1", "img2"), lf \in Answers("flv1", "flv2"),
          ln \in Answers("net1", "net2") :
         /\ \A k \in DOMAIN cch :
              \/ k = cachekey("image", "x") /\ cch[k] \in {"img1", "img2"}
              \/ k = cachekey("flavor", "x") /\ cch[k] \in {"flv1", "flv2"}
              \/ k = cachekey("network", "x") /\ cch[k] \in {"net1", "net2"}
         /\ fin = [c |-> [BaseConfig EXCEPT !.image = im, !.flavor = fl, !.network = nw],
                   cache |-> cch,
                   look |-> [image |-> li, flavor |-> lf, network |-> ln, fip |-> "ext1"]]
    /\ fout = <<>>

Resolve ==
    /\ fout = <<>>
    /\ fout' = <<getCreateData(fin.c, fin.cache, fin.look)>>
    /\ UNCHANGED <<mainVars, fin>>

SpecResolve == InitResolve /\ [][Resolve]_vars

\* ignored_states items, in several spellings
IgnoredItems == {"ACTIVE", "active", "aCtIvE", "Build", "reboot", "Hard_Reboot",
                 "error", "SHUTOFF", " active"}

ScanStatuses == {"ACTIVE", "BUILD", "REBOOT", "HARD_REBOOT", "ERROR"}

\* configurePlugin on every ignored_states list of at most MaxIgnored items,
\* then countServers on every listing of at most MaxList servers
InitIgnore ==
    /\ NoPool /\ InitPlugin
    /\ \E k \in 0..MaxIgnored, n \in 0..MaxList :
       \E items \in [1..k -> IgnoredItems], st \in [1..n -> ScanStatuses] :
         fin = [items |-> items,
                list  |-> [i \in 1..n |-> ListedServer(i, st[i], AZ(1))],
                cfg   |-> "", pos |-> 0, done |-> FALSE]
    /\ fout = EmptyCount

\* configurePlugin's handling of ignored_states
Configure ==
    /\ fin.cfg = ""
    /\ LET r == ignoreLoop(fin.items, 1, {})
       IN /\ ignoredStates' = r.set
          /\ fin' = [fin EXCEPT !.cfg = IF r.ok THEN "ok" ELSE "error"]
    /\ UNCHANGED <<provVars, clusterUtils, idMapper, stopBeforeDestroy, forceDelete,
                   avZones, cache, fipIDs, scanVars, delVars, outVars, callVars, fout>>

\* one page of the listing and countServers' callback on it, with the ignore
\* set configurePlugin left
CountPageIgnored ==
    /\ fin.cfg # "" /\ ~fin.done
    /\ LET pg == SubSeq(fin.list, fin.pos + 1, Min(fin.pos + PageSize, Len(fin.list)))
       IN /\ fout' = countPage(fout, pg, ignoredStates, FALSE)
          /\ fin' = [fin EXCEPT !.pos = fin.pos + Len(pg), !.done = LastPage(pg)]
    /\ UNCHANGED mainVars

SpecIgnore == InitIgnore /\ [][Configure \/ CountPageIgnored]_vars

\* ------------------------------------------------ configurePlugin's settings
\* the default timeouts, in seconds
defaultActionTimeout == 120
defaultStatusTImeout == 300
defaultScaleTimeout  == 7200

\* time.ParseDuration on the timeout values tried: [ok, d] with d in seconds
ParseDuration(str) ==
    CASE str = "30s" -> [ok |-> TRUE, d |-> 30]
      [] str = "10m" -> [ok |-> TRUE, d |-> 600]
      [] OTHER       -> [ok |-> FALSE, d |-> 0]

\* the settings of a TargetPlugin as NewOSNovaPlugin leaves them
ZeroSettings ==
    [actionTimeout |-> 0, scaleTimeout |-> 0, statusTimeout |-> 0,
     stopBeforeDestroy |-> FALSE, forceDelete |-> FALSE, ignoredStates |-> {}]

\* configurePlugin on the settings t and the configuration c, statement by
\* statement: each timeout is set to its default and then, when its key is
\* there, to the parsed value, with a return at the first value that does not
\* parse; then the two flags; then the ignore set is made anew and filled up to
\* the first state that cannot be ignored: [err, t]
configurePlugin(t, c) ==
    LET pa == ParseDuration(c.action_timeout)
        ps == ParseDuration(c.scale_timeout)
        pt == ParseDuration(c.status_timeout)
        t1 == [t EXCEPT !.actionTimeout =
                  IF c.action_timeout # Absent /\ pa.ok THEN pa.d
                  ELSE defaultActionTimeout]
        t2 == [t1 EXCEPT !.scaleTimeout =
                  IF c.scale_timeout # Absent /\ ps.ok THEN ps.d
                  ELSE defaultScaleTimeout]
        t3 == [t2 EXCEPT !.statusTimeout =
                  IF c.status_timeout # Absent /\ pt.ok THEN pt.d
                  ELSE defaultStatusTImeout]
        ign == ignoreLoop(c.ignored_states, 1, {})
        t4 == [t3 EXCEPT !.stopBeforeDestroy = c.stop_first,
                         !.forceDelete = c.force_delete,
                         !.ignoredStates = ign.set]
    IN IF c.action_timeout # Absent /\ ~pa.ok THEN [err |-> "action_timeout", t |-> t1]
       ELSE IF c.scale_timeout # Absent /\ ~ps.ok THEN [err |-> "scale_timeout", t |-> t2]
       ELSE IF c.status_timeout # Absent /\ ~pt.ok THEN [err |-> "status_timeout", t |-> t3]
       ELSE IF ~ign.ok THEN [err |-> "ignored_states", t |-> t4]
       ELSE [err |-> "", t |-> t4]

\* the configurations SetConfig is called with
SettingConfigs ==
    [action_timeout : {Absent, "30s", "bad"},
     scale_timeout  : {Absent, "10m", "bad"},
     status_timeout : {Absent, "30s", "bad"},
     stop_first     : BOOLEAN,
     force_delete   : {FALSE},
     ignored_states : {<<>>, <<"error">>, <<"ERROR", "active">>}]
    \cup {[action_timeout |-> Absent, scale_timeout |-> Absent, status_timeout |-> Absent,
           stop_first |-> FALSE, force_delete |-> TRUE, ignored_states |-> <<>>]}

\* a new plugin, and SetConfig called on it time after time: fout holds the
\* settings, fin the call count and, of the last call, its error and the
\* settings before it
InitSettings ==
    /\ NoPool /\ InitPlugin
    /\ fin = [n |-> 0, err |-> "", before |-> ZeroSettings]
    /\ fout = ZeroSettings

Reconfigure ==
    /\ fin.n < MaxCalls
    /\ \E c \in SettingConfigs :
         LET r == configurePlugin(fout, c)
         IN /\ fout' = r.t
            /\ fin' = [n |-> fin.n + 1, err |-> r.err, before |-> fout]
    /\ UNCHANGED mainVars

SpecSettings == InitSettings /\ [][Reconfigure]_vars

\* ------------------------------------------------ overlapping invocations
\* TargetPlugin holds its two maps as plain fields and no lock (plugin.go 74-95).
\* When two calls run on one TargetPlugin at once, each goroutine goes through
\* the map accesses of its call in program order, and nothing orders the
\* accesses of one goroutine against those of the other.
Threads == {1, 2}

MapAccess(mp, mode, key, val, when) ==
    [map |-> mp, mode |-> mode, key |-> key, val |-> val, when |-> when]

\* the map accesses of a call for instance i: a scale-out resolves the flavor
\* name (read of t.cache, and the write after a miss) and records the floating
\* IP of the instance it created; a scale-in reads the instance's entry and
\* deletes it when there is one; Status and a repeated SetConfig touch the
\* contents of neither map
MapAccesses(call, i) ==
    CASE call = "scaleOut" ->
           <<MapAccess("cache", "r", cachekey("flavor", "x"), "", "always"),
             MapAccess("cache", "w", cachekey("flavor", "x"), "flv1", "miss"),
             MapAccess("fipIDs", "w", i, FipId(i), "always")>>
      [] call = "scaleIn" ->
           <<MapAccess("fipIDs", "r", i, "", "always"),
             MapAccess("fipIDs", "d", i, "", "hit")>>
      [] OTHER -> <<>>

NoThread == [call |-> "", i |-> "", idx |-> 0, in |-> FALSE, found |-> FALSE,
             raced |-> FALSE]

\* the next access of the program from position from on, after a lookup that
\* found its key or not; 0 when the call has no more
NextAccess(prog, from, found) ==
    LET applies(j) == \/ prog[j].when = "always"
                      \/ prog[j].when = "miss" /\ ~found
                      \/ prog[j].when = "hit" /\ found
        rest == {j \in from..Len(prog) : applies(j)}
    IN IF rest = {} THEN 0 ELSE CHOOSE j \in rest : \A k \in rest : j <= k

\* the access goroutine t stands at
CurAccess(t) == MapAccesses(fin[t].call, fin[t].i)[fin[t].idx]

\* a data race: two accesses of one map, one of them a write or a delete
Conflict(a, b) == a.map = b.map /\ (a.mode # "r" \/ b.mode # "r")

InitRace ==
    /\ NoPool /\ InitPlugin
    /\ fin = [t \in Threads |-> NoThread]
    /\ \E cached \in BOOLEAN, n \in 0..InitSrv :
         fout = [cache   |-> IF cached THEN (cachekey("flavor", "x") :> "flv1")
                             ELSE EmptyMap,
                 fipIDs  |-> [id \in {SrvId(k) : k \in 1..n} |-> FipId(id)],
                 fips    |-> {FipId(SrvId(k)) : k \in 1..n},
                 next    |-> n + 1,
                 calls   |-> 0,
                 crashed |-> FALSE]

\* the framework invokes Scale, Status or SetConfig on goroutine t
Invoke(t) ==
    /\ ~fout.crashed /\ fin[t].idx = 0 /\ fout.calls < MaxCalls
    /\ \E call \in {"scaleOut", "scaleIn", "status", "setconfig"} :
       \E i \in IF call = "scaleOut" THEN {SrvId(k) : k \in {fout.next} \cap SrvIdx}
                ELSE IF call = "scaleIn" THEN {SrvId(k) : k \in 1..(fout.next - 1)}
                ELSE {""} :
         /\ fin' = [fin EXCEPT ![t] =
                      [NoThread EXCEPT !.call = call, !.i = i,
                                       !.idx = NextAccess(MapAccesses(call, i), 1, FALSE)]]
         /\ fout' = [fout EXCEPT !.calls = @ + 1,
                                 !.next = IF call = "scaleOut" THEN @ + 1 ELSE @]
    /\ UNCHANGED mainVars

\* goroutine t starts its next map access; no lock is taken
MapAccessBegin(t) ==
    /\ ~fout.crashed /\ fin[t].idx > 0 /\ ~fin[t].in
    /\ LET u == CHOOSE v \in Threads : v # t
           racing == fin[u].in /\ Conflict(CurAccess(t), CurAccess(u))
       IN fin' = [fin EXCEPT ![t].in = TRUE, ![t].raced = racing,
                             ![u].raced = @ \/ racing]
    /\ UNCHANGED <<mainVars, fout>>

\* goroutine t ends its map access. An access that ran alone has its effect. An
\* access that overlapped a conflicting one is a data race: it can have its
\* effect, lose it (a read can miss or find the key), or end the process with
\* the runtime's fatal error on concurrent map access.
MapAccessEnd(t) ==
    /\ ~fout.crashed /\ fin[t].in
    /\ LET a == CurAccess(t)
           prog == MapAccesses(fin[t].call, fin[t].i)
       IN \E out \in IF fin[t].raced THEN {"done", "lost", "crash"} ELSE {"done"},
             seen0 \in BOOLEAN :
            /\ out = "done" => seen0 = (a.key \in DOMAIN fout[a.map])
            /\ (out = "crash" \/ a.mode # "r") => seen0 = fin[t].found
            /\ fout' =
                 IF out = "crash" THEN [fout EXCEPT !.crashed = TRUE]
                 ELSE LET m1 == IF out = "lost" \/ a.mode = "r" THEN fout[a.map]
                                ELSE IF a.mode = "w" THEN MapPut(fout[a.map], a.key, a.val)
                                ELSE MapDel(fout[a.map], a.key)
                          f1 == IF a.map # "fipIDs" \/ a.mode = "r" THEN fout.fips
                                ELSE IF a.mode = "w" THEN fout.fips \cup {a.val}
                                ELSE fout.fips \ {FipId(a.key)}
                      IN [fout EXCEPT ![a.map] = m1, !.fips = f1]
            /\ fin' = [fin EXCEPT ![t] =
                         IF out = "crash" THEN @
                         ELSE LET nx == NextAccess(prog, fin[t].idx + 1, seen0)
                              IN IF nx = 0 THEN NoThread
                                 ELSE [@ EXCEPT !.idx = nx, !.in = FALSE,
                                                !.found = seen0, !.raced = FALSE]]
    /\ UNCHANGED mainVars

NextRace == \E t \in Threads : Invoke(t) \/ MapAccessBegin(t) \/ MapAccessEnd(t)

SpecRace == InitRace /\ [][NextRace]_vars

\* ================================================================ claims
\* ---- C1
\* C1: calculateDirection(current, desired) answers "out" with magnitude
\* desired - current exactly when desired > current, "in" with magnitude
\* current - desired exactly when desired < current, and the empty direction
\* with magnitude 0 exactly when they are equal; the magnitude is never negative.
C1_Direction ==
    fout # <<>> =>
      LET cur == fin[1]
          des == fin[2]
          mag == fout[1]
          dir == fout[2]
      IN /\ dir \in {"out", "in", ""}
         /\ (dir = "out") <=> (des > cur)
         /\ (dir = "in") <=> (des < cur)
         /\ (dir = "") <=> (des = cur)
         /\ dir = "out" => mag = des - cur
         /\ dir = "in" => mag = cur - des
         /\ dir = "" => mag = 0
         /\ mag >= 0

C1_Witness == fout # <<>> /\ fout[2] = "in" /\ fout[1] = 3 /\ fin[1] = 5

\* ---- C4
\* C4: for every listing, countServers' total is the number of servers whose
\* state is not ignored and ready the number of those that are ACTIVE; an
\* ignored server adds to no count, to no zone counter and to no member
\* identifier; BUILD, REBOOT, HARD_REBOOT and every other state that is not
\* ignored add to total and not to ready.
C4_CountServers ==
    fin.done =>
      LET l == fin.list
          counted == {i \in 1..Len(l) : l[i].status \notin fin.ign}
          zones == {l[i].az : i \in 1..Len(l)} \cup DOMAIN fout.azDist
      IN /\ fout.total = Cardinality(counted)
         /\ fout.ready = Cardinality({i \in counted : l[i].status = "ACTIVE"})
         /\ \A z \in zones :
              MapGet(fout.azDist, z) = Cardinality({i \in counted : l[i].az = z})
         /\ Len(fout.remoteIDs) = Cardinality(counted)
         /\ Range(fout.remoteIDs) = {idFn(l[i], fin.idm) : i \in counted}
         /\ \A i \in 1..Len(l) :
              l[i].status \in {"BUILD", "REBOOT", "HARD_REBOOT"} => i \in counted

C4_Witness ==
    /\ fin.done /\ Len(fin.list) = 3
    /\ fin.list[1].status \in fin.ign
    /\ fin.list[2].status = "REBOOT"
    /\ fin.list[3].status = "ACTIVE"
    /\ fout.total = 2 /\ fout.ready = 1


\* ---- the log of the call in flight
\* positions of the log holding a call of one of the operations os
LogOps(os) == {i \in DOMAIN log : log[i].op \in os}

\* the list calls of the inventory scan: those before any hook or instance call
ScanEvents ==
    {i \in DOMAIN log : log[i].op = "list"
                        /\ \A j \in 1..i : log[j].op \in {"list", "precheck"}}

\* the inventory scan went through its last page
ScanDone ==
    Cardinality({i \in ScanEvents : log[i].ok}) = (Len(seen) \div PageSize) + 1

CreateOps == {"create", "lookup", "fiplookup", "port", "fipcreate"}
DeleteOps == {"stop", "delete", "forcedelete", "fipdelete"}
HookOps   == {"prehook", "posthook"}

\* ---- C2
\* C2: a Scale call takes one branch, decided by the scanned total and the
\* desired count: create-path calls are issued only when desired > total, hook
\* and delete-path calls only when desired < total, and when they are equal
\* the call returns success having issued nothing but the scan; no call both
\* creates and deletes.
C2_OneBranch ==
    op = "scale" =>
      /\ LogOps(CreateOps) # {} => ScanDone /\ count > total
      /\ LogOps(DeleteOps \cup HookOps) # {} => ScanDone /\ count < total
      /\ hook.called => count < total
      /\ pc \in {"scaleOut", "create", "waitActive", "fipAttach"} => count > total
      /\ pc \in {"scaleIn", "deleteList", "deleteCheck", "stop", "waitShutoff",
                 "delete", "waitGone", "fipDelete", "postHook"} => count < total
      /\ (ScanDone /\ count = total) =>
           /\ pc \in {"counted", "done"}
           /\ LogOps({"list"}) = DOMAIN log
           /\ pc = "done" => err = NoErr
      /\ ~(LogOps(CreateOps) # {} /\ LogOps(DeleteOps \cup HookOps) # {})

C2_Witness ==
    /\ op = "scale" /\ pc = "done" /\ ScanDone
    /\ count = total /\ total = 1 /\ err = NoErr

\* ---- C3
\* C3: Scale with the dry-run sentinel as count returns success with no provider
\* call and no hook call, whatever the configuration, a configuration with no
\* pool name included.
C3_DryRun ==
    (op = "scale" /\ count = DryRunCount) =>
      /\ pc = "done" /\ err = NoErr
      /\ log = <<>>
      /\ ~hook.called /\ hook.post = "no"

C3_Witness ==
    op = "scale" /\ count = DryRunCount /\ pool = "" /\ pc = "done" /\ err = NoErr

\* ---- C5
\* C5: when the readiness precheck answers not ready, Status returns
\* ready = false without a provider call; when it passes and Status returns a
\* status, count is the scanned total and ready says whether the total equals
\* the number of ACTIVE instances.
C5_Status ==
    (op = "status" /\ pc = "done") =>
      /\ log[1].arg = "notready" =>
           /\ err = NoErr /\ Len(log) = 1
           /\ status = [set |-> TRUE, ready |-> FALSE, count |-> 0]
      /\ (log[1].arg = "ready" /\ err = NoErr) =>
           LET counted == {i \in DOMAIN seen : seen[i].status \notin ignoredStates}
               active  == {i \in DOMAIN seen : seen[i].status = "ACTIVE"}
           IN /\ ScanDone /\ status.set
              /\ status.count = total /\ total = Cardinality(counted)
              /\ status.ready = (total = Cardinality(active))
      /\ err # NoErr => status = NoStatus

C5_Witness ==
    /\ op = "status" /\ pc = "done" /\ err = NoErr /\ log[1].arg = "ready"
    /\ status.set /\ status.count = 2 /\ ~status.ready

\* ---- C6
\* C6: scale-out is fail-fast: when the creation of the k-th instance of a batch
\* fails in option building, submit, wait for ACTIVE or floating-IP attach, the
\* call returns that error at once: the failed call is the last call made, and
\* no create request was submitted for a later instance of the batch.
C6_FailFast ==
    op = "scale" =>
      /\ \A i \in DOMAIN log : ~log[i].ok => i = Len(log) /\ pc = "done" /\ err # NoErr
      /\ (pc = "done" /\ err.kind \in {"opts", "create", "waitActive", "fipAttach"}) =>
           LET creates == LogOps({"create"})
           IN /\ idx \in 1..Len(customCDList)
              /\ Cardinality(creates) = IF err.kind = "opts" THEN idx - 1 ELSE idx
              /\ Cardinality({i \in creates : log[i].ok})
                   = IF err.kind \in {"opts", "create"} THEN idx - 1 ELSE idx
              /\ err.kind # "opts" => ~log[Len(log)].ok
              /\ err.kind \in {"waitActive", "fipAttach"} =>
                   \A i \in creates : log[i].arg = err.arg => \A j \in creates : j <= i

C6_Witness ==
    /\ op = "scale" /\ pc = "done" /\ err.kind = "waitActive"
    /\ idx = 1 /\ Len(customCDList) = 2
    /\ Cardinality(LogOps({"create"})) = 1

\* ---- C7
\* C7: no compensating rollback: a Scale call never asks to stop or delete an
\* instance it created (the one whose wait for ACTIVE or floating-IP attach
\* failed included) and never re-creates an instance it deleted; the created
\* instances are still there, and the deleted ones still deleted, when the call
\* returns its error.
C7_NoRollback ==
    op = "scale" =>
      /\ \A i \in LogOps({"create"}) : \A j \in LogOps(DeleteOps) :
           log[i].ok => log[j].arg # log[i].arg
      /\ LogOps({"create"}) # {} => LogOps(DeleteOps) = {}
      /\ \A i \in LogOps({"create"}) :
           log[i].ok => /\ srv[log[i].arg].status \in {"BUILD", "ACTIVE", "ERROR"}
                        /\ srv[log[i].arg].task = "none"
      /\ \A j \in LogOps({"delete", "forcedelete"}) :
           log[j].ok => \/ srv[log[j].arg].task \in {"deleting", "forcedeleting"}
                        \/ Gone(srv[log[j].arg])

C7_Witness ==
    /\ op = "scale" /\ pc = "done" /\ err.kind = "waitActive"
    /\ idx = 2 /\ err.arg = SrvId(2)
    /\ srv[SrvId(1)].status = "ACTIVE" /\ srv[SrvId(2)].status = "ERROR"
    /\ log[Len(log)] = Ev("get", SrvId(2), FALSE)

\* ---- the delete path in the log
\* deleteServer(id) went through its delete request and its wait
Completed(id) ==
    \E j \in LogOps({"delete", "forcedelete"}) :
       /\ log[j].arg = id /\ log[j].ok
       /\ j + 1 \in DOMAIN log /\ log[j + 1] = Ev("get", id, TRUE)

\* ---- C8
\* C8: deleteServer keeps a fixed order: a stop request and the wait for SHUTOFF
\* come first exactly when stop-first is set globally or for the call, and the
\* delete request follows only once SHUTOFF was seen; the request is a
\* force-delete exactly when force is set globally or for the call; the instance
\* is accepted as gone only on not-found, DELETED or SOFT_DELETED; the floating
\* IP is released only after that; a failed phase ends the call with an error
\* and nothing is executed after it.
C8_DeleteOrder ==
    op = "scale" =>
      LET stopApplies == stopBeforeDestroy \/ stopFirst
          force == forceDelete \/ forceDel
          dels == LogOps({"delete", "forcedelete"})
      IN /\ LogOps({"stop"}) # {} => stopApplies
         /\ \A j \in dels :
              /\ stopApplies => /\ j >= 3
                                /\ log[j - 2] = Ev("stop", log[j].arg, TRUE)
                                /\ log[j - 1] = Ev("get", log[j].arg, TRUE)
              /\ (log[j].op = "forcedelete") <=> force
              /\ (log[j].ok /\ j < Len(log)) =>
                   /\ log[j + 1].op = "get" /\ log[j + 1].arg = log[j].arg
                   /\ log[j + 1].ok => Gone(srv[log[j].arg])
         /\ \A i \in LogOps({"stop"}) :
              (log[i].ok /\ i < Len(log)) =>
                 log[i + 1].op = "get" /\ log[i + 1].arg = log[i].arg
         /\ (pc = "delete" /\ stopApplies) =>
              inst \in SrvIds /\ srv[inst].status = "SHUTOFF"
         /\ pc = "fipDelete" => Gone(srv[inst])
         /\ \A j \in LogOps({"fipdelete"}) :
              /\ j >= 3
              /\ log[j - 1].op = "get" /\ log[j - 1].ok
              /\ log[j].arg = FipId(log[j - 1].arg)
              /\ log[j - 2].op \in {"delete", "forcedelete"} /\ log[j - 2].ok
              /\ log[j - 2].arg = log[j - 1].arg
              /\ Gone(srv[log[j - 1].arg])
         /\ \A i \in DOMAIN log :
              ~log[i].ok => i = Len(log) /\ pc = "done" /\ err # NoErr

C8_Witness ==
    /\ op = "scale" /\ ~stopBeforeDestroy /\ stopFirst
    /\ \E j \in DOMAIN log, id \in SrvIds :
         /\ j + 4 \in DOMAIN log
         /\ log[j] = Ev("stop", id, TRUE)
         /\ log[j + 1] = Ev("get", id, TRUE)
         /\ log[j + 2] = Ev("forcedelete", id, TRUE)
         /\ log[j + 3] = Ev("get", id, TRUE)
         /\ log[j + 4] = Ev("fipdelete", FipId(id), TRUE)

\* ---- C9
\* the requested identifiers that are the name of no server of the delete scan
Unmatched ==
    {x \in Range(instanceIDs) : \A k \in DOMAIN dseen : dseen[k].name # x}

\* deleteServers' scan ended with a requested name unmatched
NotFoundReturned ==
    op = "scale" /\ ~idMapper /\ pc = "done" /\ err.kind = "notfound"

\* C9 as stated: every requested identifier left unmatched by the full scan is
\* the one the returned error names.
C9_Original ==
    NotFoundReturned => \A x \in Unmatched : err.arg = x

\* C9: in name-scan mode, when the full scan leaves requested identifiers
\* unmatched, deleteServers returns an error naming ONE of them (any of them when
\* there are several); every instance matched during the scan went through its
\* whole deletion sequence, and the post-scale-in hook is not run.
C9_NotFound ==
    (op = "scale" /\ ~idMapper) =>
      /\ NotFoundReturned =>
           /\ err.arg \in Unmatched
           /\ \A k \in DOMAIN dseen :
                dseen[k].name \in Range(instanceIDs) =>
                   Completed(dseen[k].id) /\ Gone(srv[dseen[k].id])
           /\ hook.post = "no" /\ LogOps({"posthook"}) = {}
      /\ (pc = "deleteCheck" /\ Unmatched # {}) => hook.post = "no"
      /\ (pc = "postHook" \/ LogOps({"posthook"}) # {}) => Unmatched = {}

C9_Witness ==
    /\ NotFoundReturned
    /\ Cardinality(Unmatched) = 1
    /\ \E k \in DOMAIN dseen : dseen[k].name \in Range(instanceIDs)

\* ---- C10
\* C10: scale-in order: the pre-scale-in hook runs first, with count = total -
\* desired and the member identifiers of this call's scan; deletions are issued
\* only after the hook succeeded and only for identifiers it returned; the
\* post-scale-in hook runs only after every deletion of the batch succeeded. A
\* failed pre-hook means no deletion, a failed deletion means no post-hook.
C10_ScaleInOrder ==
    op = "scale" =>
      LET pre == LogOps({"prehook"})
          targets == IF idMapper THEN Range(hook.ids)
                     ELSE {dseen[k].id : k \in {n \in DOMAIN dseen :
                                                  dseen[n].name \in Range(hook.ids)}}
      IN /\ hook.called =>
              /\ hook.count = total - count /\ hook.count > 0
              /\ hook.remoteIDs = remoteIDs
              /\ Range(hook.remoteIDs) =
                   {idFn(seen[i], idMapper) :
                      i \in {n \in DOMAIN seen : seen[n].status \notin ignoredStates}}
              /\ Cardinality(pre) = 1
              /\ Len(hook.ids) <= hook.count
         /\ hook.called <=> pre # {}
         /\ \A i \in pre : /\ \A j \in 1..(i - 1) : log[j] = Ev("list", "", TRUE)
                           /\ log[i].ok = hook.ok
         /\ \A j \in LogOps(DeleteOps \cup {"posthook"}) :
              /\ hook.ok
              /\ \E i \in pre : i < j
         /\ \A j \in LogOps({"stop", "delete", "forcedelete"}) : log[j].arg \in targets
         /\ \A j \in LogOps({"posthook"}) :
              /\ j = Len(log)
              /\ \A i \in 1..(j - 1) : log[i].ok
              /\ \A id \in targets : Completed(id)
              /\ ~idMapper => Unmatched = {}
         /\ (hook.called /\ ~hook.ok) =>
              /\ LogOps(DeleteOps \cup {"posthook"}) = {}
              /\ pc = "done" /\ err.kind = "prehook"
         /\ (\E i \in LogOps(DeleteOps \cup {"get", "list"}) : ~log[i].ok) =>
              hook.post = "no" /\ LogOps({"posthook"}) = {}
         /\ (hook.post = "no") <=> (LogOps({"posthook"}) = {})

C10_Witness ==
    /\ op = "scale" /\ pc = "done" /\ err = NoErr
    /\ hook.count = 2 /\ Len(hook.ids) = 2 /\ hook.post = "ok"
    /\ \A i \in 1..2 : hook.ids[i] \in SrvIds /\ Completed(hook.ids[i])
    /\ log[Len(log)] = Ev("posthook", "", TRUE)

\* ---- C11
\* the delete requests of the call that the provider accepted
AcceptedDeletes == {j \in LogOps({"delete", "forcedelete"}) : log[j].ok}

\* C11: a scale-in whose pre-scale-in hook returned total - desired distinct
\* identifiers sends a delete for one pool instance per identifier, in
\* direct-ID mode and in name-scan mode, so that at most total - desired
\* instances are deleted.
C11_NoOverDelete ==
    (op = "scale" /\ hook.ok /\ Len(hook.ids) = total - count) =>
      /\ Cardinality(AcceptedDeletes) <= total - count
      /\ Cardinality({log[j].arg : j \in AcceptedDeletes}) <= Len(hook.ids)

\* ---- distributeAZ's result
\* the slots of the result that went to zone z
Assigned(z) == Cardinality({i \in DOMAIN fout[1] : fout[1][i].availabilityzone = z})

MaxOf(S) == CHOOSE x \in S : \A y \in S : y <= x
MinOf(S) == CHOOSE x \in S : \A y \in S : x <= y

\* ---- C12
\* C12: for every ordered list of distinct candidate zones, every count map and
\* every number n of slots, the spread (max minus min over the candidates of
\* current count plus assigned slots) after distributeAZ is at most
\* max(1, spread before), and at most 1 when n is at least the number of slots
\* that lift every candidate to the initial maximum minus one; candidates
\* [az1, az2, az3] with counts 5, 1, 3 and 5 slots end at 5, 5, 4.
C12_Balance ==
    (fout # <<>> /\ fin.azList # <<>>) =>
      LET cand   == Range(fin.azList)
          before == {MapGet(fin.dist, z) : z \in cand}
          after  == {MapGet(fin.dist, z) + Assigned(z) : z \in cand}
          sb     == MaxOf(before) - MinOf(before)
          sa     == MaxOf(after) - MinOf(after)
          lift(z) == IF MapGet(fin.dist, z) < MaxOf(before) - 1
                     THEN MaxOf(before) - 1 - MapGet(fin.dist, z) ELSE 0
          RECURSIVE Sum(_)
          Sum(S) == IF S = {} THEN 0
                    ELSE LET z == CHOOSE x \in S : TRUE IN lift(z) + Sum(S \ {z})
      IN /\ sa <= (IF sb > 1 THEN sb ELSE 1)
         /\ fin.n >= Sum(cand) => sa <= 1
         /\ (fin.azList = <<AZ(1), AZ(2), AZ(3)>> /\ fin.n = 5
             /\ fin.dist = (AZ(1) :> 5 @@ AZ(2) :> 1 @@ AZ(3) :> 3)) =>
               /\ 5 + Assigned(AZ(1)) = 5
               /\ 1 + Assigned(AZ(2)) = 5
               /\ 3 + Assigned(AZ(3)) = 4

C12_Witness ==
    /\ fout # <<>> /\ fin.azList = <<AZ(1), AZ(2), AZ(3)>> /\ fin.n = 5
    /\ fin.dist = (AZ(1) :> 5 @@ AZ(2) :> 1 @@ AZ(3) :> 3)
    /\ Assigned(AZ(2)) = 4 /\ Assigned(AZ(3)) = 1

\* ---- C13
\* C13: with a candidate list that is not empty, distributeAZ gives every slot
\* a zone of the list; a zone of the count map that is not in the list gets no
\* slot; a candidate the map does not hold counts as 0 (the first slot goes to
\* a candidate of least count). [az1] with counts {az1: 5, az2: 1} and 3 slots
\* gives az1 all 3, and so does [az1] with counts {az2: 5}.
C13_OnlyCandidates ==
    (fout # <<>> /\ fin.azList # <<>>) =>
      LET cand == Range(fin.azList)
      IN /\ Len(fout[1]) = fin.n
         /\ \A i \in DOMAIN fout[1] : fout[1][i].availabilityzone \in cand
         /\ \A z \in DOMAIN fin.dist \ cand : Assigned(z) = 0
         /\ fin.n >= 1 =>
              \A z \in cand : MapGet(fin.dist, fout[1][1].availabilityzone)
                                <= MapGet(fin.dist, z)
         /\ (fin.azList = <<AZ(1)>> /\ fin.n = 3
             /\ fin.dist \in {AZ(1) :> 5 @@ AZ(2) :> 1, AZ(2) :> 5}) =>
               Assigned(AZ(1)) = 3

C13_Witness ==
    /\ fout # <<>> /\ fin.azList = <<AZ(1), AZ(3)>> /\ fin.n = 4
    /\ fin.dist = (AZ(1) :> 2 @@ AZ(2) :> 1)
    /\ Assigned(AZ(3)) = 3 /\ Assigned(AZ(1)) = 1 /\ Assigned(AZ(2)) = 0

\* ---- C14
\* C14: with an empty candidate list distributeAZ leaves every slot without a
\* zone, and the create request built for such a slot carries no availability
\* zone.
C14_EmptyList ==
    (fout # <<>> /\ fin.azList = <<>>) =>
      /\ Len(fout[1]) = fin.n /\ Len(fout[2]) = fin.n
      /\ \A i \in DOMAIN fout[1] : fout[1][i].availabilityzone = ""
      /\ \A i \in DOMAIN fout[2] : fout[2][i].AvailabilityZone = ""

C14_Witness ==
    /\ fout # <<>> /\ fin.azList = <<>> /\ fin.n = 2
    /\ fin.dist = (AZ(1) :> 1 @@ AZ(2) :> 2)
    /\ fout[2][2].AvailabilityZone = ""

\* ---- C15
\* C15: with an availability-zone list configured (availavility_zones), every
\* instance a scale-out creates is launched in a zone of the list: the create
\* request names a member of the list, with evenly_split_azs set or not.
C15_ConfiguredZones ==
    (op = "scale" /\ common.availabilityZones # <<>>) =>
      /\ pc = "create" =>
           dataToCreateOpts(common, customCDList[idx]).opts.AvailabilityZone
             \in Range(common.availabilityZones)
      /\ \A i \in LogOps({"create"}) :
           log[i].ok => srv[log[i].arg].az \in Range(common.availabilityZones)

\* ---- the resolver cache
Kinds == {"image", "flavor", "network"}

\* the ID getCreateData returned for a kind
Resolved(cm, kind) ==
    CASE kind = "image" -> cm.imageID
      [] kind = "flavor" -> cm.flavorID
      [] kind = "network" -> cm.networkUUID

\* the IDs the target configurations give directly
ConfigIDs == {"img0", "flv0", "net0"}

\* the provider calls a step adds to the log
NewCalls == SubSeq(log', Len(log) + 1, Len(log'))

\* ---- C16
\* every step of scaleOut: a name-to-ID lookup is issued only for a (kind, name)
\* the cache does not hold, a successful one stores the ID it returned, and the
\* ID returned for a cached (kind, name) is the cached one, whatever the
\* provider would answer now
C16_Step ==
    (op = "scale" /\ pc = "scaleOut") =>
      /\ \A i \in DOMAIN NewCalls :
           NewCalls[i].op = "lookup" =>
             /\ NewCalls[i].arg \notin DOMAIN cache
             /\ NewCalls[i].ok => NewCalls[i].arg \in DOMAIN cache'
             /\ \A j \in DOMAIN NewCalls :
                  (NewCalls[j].op = "lookup" /\ NewCalls[j].arg = NewCalls[i].arg)
                     => j = i
      /\ \A k \in DOMAIN cache : k \in DOMAIN cache' /\ cache'[k] = cache[k]
      /\ common' # NoCommon =>
           \A kind \in Kinds :
              LET key == cachekey(kind, "x")
              IN /\ key \in DOMAIN cache =>
                      Resolved(common', kind) \in ConfigIDs \cup {cache[key]}
                 /\ (\E i \in DOMAIN NewCalls : NewCalls[i] = Ev("lookup", key, TRUE))
                      => Resolved(common', kind) = cache'[key]

\* C16: resolver cache idempotence: over any sequence of scale-outs, two
\* successful resolutions of the same (kind, name), kind among flavor, image
\* and network, issue one provider lookup, and the second returns the ID of the
\* first even if the provider's mapping changed in between.
C16_CacheIdempotent == [][C16_Step]_vars

\* the image was resolved by an earlier call, the flavor by this one under a
\* changed mapping: the image ID is still the first answer
C16_Witness ==
    /\ op = "scale" /\ pc = "create"
    /\ common.imageID = "img1" /\ common.flavorID = "flv2"
    /\ cache[cachekey("image", "x")] = "img1"
    /\ LogOps({"lookup"}) # {}
    /\ \A i \in LogOps({"lookup"}) : log[i].arg # cachekey("image", "x")

\* ---- C17
\* the IDs the provider may answer for a kind
IdsOf(kind) ==
    {Resolved([imageID |-> l.image, flavorID |-> l.flavor, networkUUID |-> l.network],
              kind) : l \in OutLooks}

\* every step: the entries of the cache stay as they are, and an entry of a
\* kind holds an ID of that kind
C17_Step ==
    /\ \A k \in DOMAIN cache : k \in DOMAIN cache' /\ cache'[k] = cache[k]
    /\ \A kind \in Kinds :
         cachekey(kind, "x") \in DOMAIN cache' =>
            cache'[cachekey(kind, "x")] \in IdsOf(kind)
    /\ DOMAIN cache' \subseteq {cachekey(kind, "x") : kind \in Kinds}

\* C17: the resolver cache is monotone for the life of the process: an entry
\* (kind, name) -> id, once there, is never removed or changed by a later Scale,
\* Status or SetConfig (reload) call, and entries of different kinds with the
\* same name do not overwrite each other.
C17_CacheMonotone == [][C17_Step]_vars

C17_Witness ==
    /\ op = "setconfig" /\ pc = "done" /\ err = NoErr
    /\ DOMAIN cache = {cachekey(kind, "x") : kind \in Kinds}
    /\ cache[cachekey("image", "x")] = "img2"
    /\ cache[cachekey("flavor", "x")] = "flv2"
    /\ cache[cachekey("network", "x")] = "net2"

\* ---- C18
\* the configuration of a kind in a target configuration
ConfigOf(c, kind) ==
    CASE kind = "image" -> c.image
      [] kind = "flavor" -> c.flavor
      [] kind = "network" -> c.network

\* C18: when both an ID and a name are configured for a resource (flavor, image
\* or network) the configured ID is used: no provider lookup is issued for the
\* resource, and the resolver cache is neither read nor written for it.
C18_IdFirst ==
    fout # <<>> =>
      \A kind \in Kinds :
         LET rc  == ConfigOf(fin.c, kind)
             key == cachekey(kind, rc.name)
             r   == fout[1]
         IN (rc.id # Absent /\ rc.name # Absent) =>
              /\ r.ok => Resolved(r.data, kind) = rc.id
              /\ \A i \in DOMAIN r.calls : r.calls[i].arg # key
              /\ (key \in DOMAIN r.cache) <=> (key \in DOMAIN fin.cache)
              /\ key \in DOMAIN fin.cache => r.cache[key] = fin.cache[key]

\* ID and name given for the image, the name cached with another ID, the flavor
\* given by name only and looked up
C18_Witness ==
    /\ fout # <<>> /\ fout[1].ok
    /\ fin.c.image = ByBoth("img0", "x") /\ fin.c.flavor = ByName("x")
    /\ cachekey("image", "x") \in DOMAIN fin.cache
    /\ cachekey("flavor", "x") \notin DOMAIN fin.cache
    /\ fout[1].data.imageID = "img0" /\ fout[1].data.flavorID = "flv2"

\* ---- C19
\* the spellings of the four states that cannot be ignored
Spellings ==
    {"ACTIVE", "active", "aCtIvE", "Active", "BUILD", "Build", "build",
     "REBOOT", "reboot", "Reboot", "HARD_REBOOT", "Hard_Reboot", "hard_reboot"}

\* C19: ACTIVE, BUILD, REBOOT or HARD_REBOOT, in any letter case, in the
\* ignored-state list makes configurePlugin fail with a configuration error; so
\* the plugin's ignore set never holds one of the four, and an instance in one of
\* them is always counted by the inventory scan.
C19_NonIgnorable ==
    /\ ignoredStates \cap {"ACTIVE", "BUILD", "REBOOT", "HARD_REBOOT"} = {}
    /\ fin.cfg # "" =>
         ((\E i \in DOMAIN fin.items : fin.items[i] \in Spellings)
            <=> fin.cfg = "error")
    /\ fin.done =>
         LET four == {i \in DOMAIN fin.list :
                        fin.list[i].status \in {"ACTIVE", "BUILD", "REBOOT", "HARD_REBOOT"}}
         IN /\ fout.total >= Cardinality(four)
            /\ \A i \in four : fin.list[i].name \in Range(fout.remoteIDs)
            /\ fout.ready = Cardinality({i \in four : fin.list[i].status = "ACTIVE"})

C19_Witness ==
    /\ fin.items = <<"error", "aCtIvE">> /\ fin.cfg = "error"
    /\ ignoredStates = {"ERROR"}
    /\ fin.done /\ Len(fin.list) = 3
    /\ fin.list[1].status = "ERROR" /\ fin.list[2].status = "ACTIVE"
    /\ fin.list[3].status = "HARD_REBOOT"
    /\ fout.total = 2 /\ fout.ready = 1

\* ---- C20
\* the servers a listing of the call in flight returned, as they are now
ListedIds(l) == {l[i].id : i \in DOMAIN l}
Live(id) == srv[id].status \notin {"NONE", "DELETED"}

\* every instance carries the pool tag of the pool it was created for, and the
\* request just submitted carries it next to the configured tags
CarriesPoolTag ==
    /\ \A id \in SrvIds : srv[id].status # "NONE" => poolTag(srv[id].owner) \in srv[id].tags
    /\ (pc = "waitActive" /\ srv[inst].status # "NONE") =>
         srv[inst].tags = Range(common.tags) \cup {poolTag(pool)}

\* a finished listing for the pool holds every live instance created for it
ListsOwnPool ==
    /\ pc = "counted" =>
         \A id \in SrvIds : Live(id) /\ srv[id].owner = pool => id \in ListedIds(seen)
    /\ pc = "deleteCheck" =>
         \A id \in SrvIds : Live(id) /\ srv[id].owner = pool => id \in ListedIds(dseen)

\* the statement of C20 as written: no listing returns an instance created for
\* a different pool
C20_Original ==
    /\ CarriesPoolTag
    /\ ListsOwnPool
    /\ \A id \in ListedIds(seen) \cup ListedIds(dseen) :
         srv[id].status # "NONE" => srv[id].owner = pool

\* C20: every create request carries the tag na_pool:<pool name> in addition to
\* the configured tags, and the inventory scan and the name-scan delete filter on
\* exactly that tag; an instance created for pool P is returned by the next
\* listing for P, and by a listing for another pool only when its configured tags
\* hold that pool's tag.
C20_PoolTag ==
    /\ CarriesPoolTag
    /\ ListsOwnPool
    /\ \A id \in ListedIds(seen) \cup ListedIds(dseen) :
         srv[id].status # "NONE" =>
           /\ poolTag(pool) \in srv[id].tags
           /\ srv[id].owner # pool =>
                poolTag(pool) \in srv[id].tags \ {poolTag(srv[id].owner)}

C20_Witness ==
    /\ op = "status" /\ pc = "counted" /\ pool = Pool /\ calls = 3
    /\ ListedIds(seen) = {SrvId(2)}
    /\ srv[SrvId(2)].tags = {"role:x", "na_pool:P"} /\ srv[SrvId(2)].owner = Pool
    /\ Live(SrvId(1)) /\ srv[SrvId(1)].owner = OtherPool

\* ---- C21
\* C21: when listing or decoding a page of the inventory scan fails, the scan
\* stops at that page and the error is returned with no partial result: Scale
\* returns the error having issued no create, delete or hook call, Status returns
\* the error and no status value.
C21_ScanAbort ==
    /\ \A i \in ScanEvents : ~log[i].ok =>
         /\ i = Len(log) /\ pc = "done" /\ err = Err("count", "")
    /\ err.kind = "count" =>
         /\ pc = "done" /\ op \in {"scale", "status"}
         /\ ~log[Len(log)].ok /\ log[Len(log)].op = "list"
         /\ LogOps({"list", "precheck"}) = DOMAIN log
         /\ Cardinality(LogOps({"list"})) = (Len(seen) \div PageSize) + 1
         /\ ~hook.called /\ hook.post = "no"
         /\ status = NoStatus
         /\ common = NoCommon /\ customCDList = <<>> /\ instanceIDs = <<>>

C21_Witness ==
    /\ op = "status" /\ pc = "done" /\ err.kind = "count"
    /\ Len(seen) = 1 /\ total = 1 /\ Len(log) = 3

\* ---- C22
\* a port lookup or a floating-IP allocation of the call in flight failed
FipFailed == {i \in DOMAIN log : log[i].op \in {"port", "fipcreate"} /\ ~log[i].ok}

\* the statement of C22 as written: after a floating-IP failure the remaining
\* instances of the batch are still created
C22_Original ==
    (op = "scale" /\ pc = "done" /\ FipFailed # {}) =>
      Cardinality({i \in LogOps({"create"}) : log[i].ok}) = Len(customCDList)

\* C22: a floating-IP failure (port lookup or floating-IP allocation) during the
\* creation of one instance is fatal for that instance's creation and for the
\* rest of the batch: createServers returns the error at once, the instance stays
\* without a recorded floating IP, and no create request is submitted for a
\* later slot.
C22_FipFatal ==
    \A i \in FipFailed :
      /\ i = Len(log) /\ pc = "done" /\ op = "scale"
      /\ err = Err("fipAttach", log[i].arg) /\ inst = log[i].arg
      /\ inst \notin DOMAIN fipIDs
      /\ idx \in 1..Len(customCDList)
      /\ Cardinality(LogOps({"create"})) = idx
      /\ \A j \in LogOps({"create"}) : log[j].ok /\ j < i
      /\ LogOps(DeleteOps) = {}

C22_Witness ==
    /\ op = "scale" /\ pc = "done" /\ err.kind = "fipAttach"
    /\ log[Len(log)] = Ev("fipcreate", inst, FALSE)
    /\ idx = 1 /\ Len(customCDList) = 2
    /\ Cardinality(LogOps({"create"})) = 1
    /\ srv[inst].status = "ACTIVE"

\* ---- C23
\* the call in flight ended on a target configuration with name and name_prefix
\* both set, or without ID and name of image, flavor or network
BadTarget ==
    /\ op = "scale" /\ pc = "done"
    /\ err.kind = "config" /\ err.arg \in {"name", "image", "flavor", "network"}

\* the statement of C23 as written: such a configuration is rejected before
\* the provider is touched
C23_Original == BadTarget => log = <<>>

\* C23: a target configuration with both name and name_prefix set, or with
\* neither an ID nor a name for image, flavor or network, is rejected by
\* getCreateData on the scale-out path: the Scale call fails after its inventory
\* scan and before any create request; the name conflict is found before any
\* name lookup, a missing key after the lookups of the resources before it.
C23_AtScaleOut ==
    BadTarget =>
      /\ ScanDone /\ count > total
      /\ \A i \in LogOps({"list"}) : log[i].ok
      /\ LogOps({"list", "lookup"}) = DOMAIN log
      /\ err.arg = "name" => LogOps({"lookup"}) = {}
      /\ \A i \in LogOps({"lookup"}) :
           /\ log[i].ok
           /\ err.arg # "image"
           /\ err.arg = "flavor" => log[i].arg = cachekey("image", "x")
      /\ common = NoCommon /\ customCDList = <<>>
      /\ ~hook.called

C23_Witness ==
    /\ BadTarget /\ err.arg = "flavor"
    /\ Len(seen) = 1 /\ count = 2
    /\ log[Len(log)] = Ev("lookup", cachekey("image", "x"), TRUE)

\* ---- C24
\* the reference distributor: w[i] is the working count of the i-th candidate;
\* the candidate picked is the one with the least working count, among those
\* the one with the least current count, among those the first of the list
\* (the order of the stably count-sorted list)
LeastLoaded(azList, dist, w) ==
    CHOOSE i \in DOMAIN azList :
      \A j \in DOMAIN azList \ {i} :
        \/ w[i] < w[j]
        \/ w[i] = w[j] /\ MapGet(dist, azList[i]) < MapGet(dist, azList[j])
        \/ w[i] = w[j] /\ MapGet(dist, azList[i]) = MapGet(dist, azList[j]) /\ i < j

RECURSIVE Reference(_, _, _, _)
Reference(azList, dist, w, n) ==
    IF n = 0 THEN <<>>
    ELSE LET i == LeastLoaded(azList, dist, w)
         IN <<azList[i]>> \o Reference(azList, dist, [w EXCEPT ![i] = @ + 1], n - 1)

\* C24: for every ordered list of distinct candidate zones, every count map and
\* every number of slots, distributeAZ gives each slot the zone a reference
\* distributor gives it that picks, for every slot, the first entry of the
\* stably count-sorted list whose working count is minimal.
C24_LeastLoaded ==
    (fout # <<>> /\ fin.azList # <<>>) =>
      [i \in DOMAIN fout[1] |-> fout[1][i].availabilityzone]
        = Reference(fin.azList, fin.dist,
                    [i \in DOMAIN fin.azList |-> MapGet(fin.dist, fin.azList[i])], fin.n)

\* three zones with counts 0, 0 and 2: the cursor goes to the second zone and
\* back to the first before it reaches the third
C24_Witness ==
    /\ fout # <<>> /\ fin.azList = <<AZ(3), AZ(1), AZ(2)>> /\ fin.n = 5
    /\ fin.dist = (AZ(3) :> 2)
    /\ [i \in DOMAIN fout[1] |-> fout[1][i].availabilityzone]
         = <<AZ(1), AZ(2), AZ(1), AZ(2), AZ(1)>>

Settled(i, j) ==
    /\ log[i].ok
    /\ \E g \in (i + 1)..(j - 1) :
         /\ log[g] = Ev("get", log[i].arg, TRUE)
         /\ common.floatingIPPool # "" =>
              \E f \in (g + 1)..(j - 1) : log[f] = Ev("fipcreate", log[i].arg, TRUE)

\* the positions where the deletion sequence of a target starts
DeleteStarts ==
    {i \in LogOps({"stop", "delete", "forcedelete"}) :
       log[i].op = "stop" \/ i < 3 \/ log[i - 1] # Ev("get", log[i].arg, TRUE)
         \/ log[i - 2] # Ev("stop", log[i].arg, TRUE)}

\* the target whose deletion starts at position i was accepted as gone before
\* position j
GoneBefore(i, j) ==
    \E d \in i..(j - 2) :
       /\ log[d].op \in {"delete", "forcedelete"} /\ log[d].arg = log[i].arg /\ log[d].ok
       /\ d + 1 \in DOMAIN log /\ log[d + 1] = Ev("get", log[i].arg, TRUE)

\* C26: within one Scale call the instances are handled one after the other: the
\* create request of the next instance is submitted only after the one before
\* was observed ACTIVE (and its floating IP recorded when a pool is configured),
\* and the deletion of the next target starts only after the one before was
\* accepted as gone; no two instances of a batch are in flight at a time.
C26_Sequential ==
    op = "scale" =>
      /\ \A i, j \in LogOps({"create"}) : i < j => Settled(i, j)
      /\ \A i, j \in DeleteStarts : i < j => GoneBefore(i, j)
      /\ Cardinality({i \in LogOps({"create"}) :
                        log[i].ok /\ ~Settled(i, Len(log) + 1)}) <= 1
      /\ Cardinality({i \in DeleteStarts : ~GoneBefore(i, Len(log) + 2)}) <= 1
      /\ pc \in {"waitActive", "fipAttach"} =>
           \A i \in LogOps({"create"}) : log[i].arg # inst => Settled(i, Len(log) + 1)

C26_Witness ==
    /\ op = "scale" /\ pc = "done" /\ err = NoErr
    /\ Cardinality(LogOps({"create"})) = 2
    /\ common.floatingIPPool # ""
    /\ Cardinality(LogOps({"fipcreate"})) = 2

\* ---- C27
DeleteFailures == {"stop", "waitShutoff", "delete", "waitGone", "fipDelete"}

\* the list calls of deleteServers' own scan: those after the pre-scale-in hook
DeleteScanLists ==
    {i \in LogOps({"list"}) : \E h \in LogOps({"prehook"}) : h < i}

\* the instances a stop or delete request was issued for
Touched == {log[i].arg : i \in LogOps({"stop", "delete", "forcedelete"})}

\* C27: scale-in is fail-fast in both delete modes: when a phase of one target's
\* deletion (stop, wait for SHUTOFF, delete, wait for gone, floating-IP release)
\* fails or times out, deleteServers returns that error at once; no stop or
\* delete request is issued for a later target, and in name-scan mode no further
\* page of the listing is read.
C27_DeleteFailFast ==
    op = "scale" =>
      /\ \A i \in DOMAIN log :
           (hook.called /\ ~log[i].ok /\ log[i].op \in DeleteOps \cup {"get"}) =>
             /\ i = Len(log) /\ pc = "done"
             /\ err.kind \in DeleteFailures /\ err.arg = inst
      /\ (pc = "done" /\ err.kind \in DeleteFailures) =>
           /\ ~log[Len(log)].ok
           /\ hook.post = "no" /\ LogOps({"posthook"}) = {}
           /\ idMapper =>
                /\ idx \in DOMAIN instanceIDs /\ instanceIDs[idx] = inst
                /\ Touched \subseteq {instanceIDs[k] : k \in 1..idx}
                /\ DeleteScanLists = {}
           /\ ~idMapper =>
                /\ pidx \in DOMAIN page /\ page[pidx].id = inst
                /\ Len(dseen) >= Len(page)
                /\ SubSeq(dseen, Len(dseen) - Len(page) + 1, Len(dseen)) = page
                /\ Touched \subseteq
                     {dseen[k].id : k \in 1..(Len(dseen) - Len(page) + pidx)}
                /\ \A i \in DeleteScanLists : log[i].ok
                /\ (Cardinality(DeleteScanLists) - 1) * PageSize
                     = Len(dseen) - Len(page)

\* name-scan mode, two instances requested: the wait for the first one fails and
\* the page that holds the second one is never read
C27_Witness ==
    /\ op = "scale" /\ pc = "done" /\ ~idMapper /\ err.kind = "waitGone"
    /\ Len(instanceIDs) = 2 /\ Len(dseen) = 1
    /\ Cardinality(DeleteScanLists) = 1
    /\ \E id \in SrvIds : /\ id # inst /\ Listed(srv[id], poolTag(pool))
                          /\ srv[id].name \in Range(instanceIDs)
                          /\ id \notin Touched

\* ---- C28
\* C28: a scale-out never creates too many and never tries again: a Scale call
\* with desired > total submits at most desired - total create requests, the
\* request of each slot at most once, and exactly desired - total of them when
\* it returns success.
C28_NoOverCreate ==
    op = "scale" =>
      LET creates == LogOps({"create"})
      IN /\ creates # {} =>
              /\ ScanDone /\ count > total
              /\ Len(customCDList) = count - total
         /\ Cardinality(creates) <= count - total \/ creates = {}
         /\ pc = "create" => Cardinality(creates) = idx - 1
         /\ pc \in {"waitActive", "fipAttach"} => Cardinality(creates) = idx
         /\ \A i \in creates : ~log[i].ok => i = Len(log) /\ pc = "done"
         /\ \A i, j \in creates : (i # j /\ log[i].ok /\ log[j].ok) => log[i].arg # log[j].arg
         /\ (pc = "done" /\ err = NoErr /\ ScanDone /\ count > total) =>
              /\ Cardinality({i \in creates : log[i].ok}) = count - total
              /\ Cardinality(creates) = count - total

C28_Witness ==
    /\ op = "scale" /\ pc = "done" /\ err = NoErr
    /\ total = 0 /\ count = 2
    /\ Cardinality(LogOps({"create"})) = 2
    /\ \A i \in LogOps({"create"}) : srv[log[i].arg].status = "ACTIVE"

\* ---- C29
\* the servers of this call's scan that are counted
Counted == {i \in DOMAIN seen : seen[i].status \notin ignoredStates}

\* the zone counts of this call's scan
ScanDist ==
    [z \in {seen[i].az : i \in Counted} |-> Cardinality({i \in Counted : seen[i].az = z})]

\* C29: the reconciler keeps nothing from one call to the next: a Scale call
\* that is no dry run and has a pool name makes exactly one inventory scan, before
\* any lookup, create, delete or hook call; direction and magnitude come from
\* that scan's total and the desired count alone, and the zone counts handed to
\* the distributor are those of the same scan.
C29_Stateless ==
    (op = "scale" /\ count # DryRunCount /\ pool # "") =>
      /\ total = Cardinality(Counted)
      /\ azDist = ScanDist
      /\ Len(remoteIDs) = total
      /\ \A i \in LogOps(CreateOps \cup DeleteOps \cup HookOps) :
           /\ ScanDone
           /\ \A j \in ScanEvents : j < i /\ log[j].ok
      /\ Cardinality(ScanEvents) <= (Len(seen) \div PageSize) + 1
      /\ pc \in {"scaleOut", "create", "waitActive", "fipAttach"} =>
           ScanDone /\ count > Cardinality(Counted)
      /\ pc \in {"scaleIn", "deleteList", "deleteCheck", "stop", "waitShutoff",
                 "delete", "waitGone", "fipDelete", "postHook"} =>
           ScanDone /\ count < Cardinality(Counted)
      /\ hook.called => hook.count = Cardinality(Counted) - count
      /\ customCDList # <<>> =>
           /\ Len(customCDList) = count - Cardinality(Counted)
           /\ [i \in DOMAIN customCDList |-> customCDList[i].availabilityzone]
                = [i \in DOMAIN customCDList |->
                     customCreateData(common, Len(customCDList), ScanDist)[i].availabilityzone]

\* the third call: a scale-out that splits over the zones, with one instance
\* in the scan; a zone that instance is not in is chosen
C29_Witness ==
    /\ op = "scale" /\ calls = 3 /\ pc = "create"
    /\ common.evenlydistributeAZ
    /\ Len(seen) = 1 /\ seen[1].id = SrvId(1) /\ azDist = (seen[1].az :> 1)
    /\ Len(customCDList) = 1
    /\ customCDList[1].availabilityzone \notin {"", seen[1].az}

\* ---- C30
\* the instances a scan of pool p would count now
PoolCount(p) ==
    Cardinality({id \in SrvIds : Listed(srv[id], poolTag(p))
                                 /\ srv[id].status \notin ignoredStates})

\* a Scale call with the desired count and the pool of the call that has just
\* returned success starts
SameScaleAgain ==
    /\ op = "scale" /\ pc = "done" /\ err = NoErr
    /\ count # DryRunCount /\ pool # ""
    /\ calls' = calls + 1 /\ op' = "scale" /\ count' = count /\ pool' = pool

\* the pre-scale-in hook of the call handed back as many identifiers as asked
FullHook == hook.called => Len(hook.ids) = hook.count

\* no instance the delete driver accepted as gone would be counted now
GoneNotCounted ==
    \A i \in LogOps({"delete", "forcedelete"}) :
      (log[i].ok /\ i < Len(log) /\ log[i + 1] = Ev("get", log[i].arg, TRUE)) =>
        ~(Listed(srv[log[i].arg], poolTag(pool))
          /\ srv[log[i].arg].status \notin ignoredStates)

\* C30: reconciliation is idempotent: when a Scale call with desired count d has
\* returned success, a Scale call with the same d that follows it finds d
\* counted instances, so that it creates and deletes nothing (here even granted
\* that the hook handed back as many identifiers as asked and that the provider
\* lists no instance accepted as gone).
C30_Step ==
    (SameScaleAgain /\ FullHook /\ GoneNotCounted) => PoolCount(pool) = count

C30_Idempotent == [][C30_Step]_vars

\* ---- C31
\* every step of scaleOut: when a name lookup fails the call ends there with the
\* resolution error, with no create data and no create request; the cache holds
\* no entry for the failed name and differs from the cache before at most by the
\* names this call resolved before it; and a name the cache does not hold is
\* resolved by a lookup
C31_Step ==
    (op = "scale" /\ pc = "scaleOut") =>
      /\ \A i \in DOMAIN NewCalls :
           (NewCalls[i].op = "lookup" /\ ~NewCalls[i].ok) =>
             /\ i = Len(NewCalls)
             /\ pc' = "done" /\ err'.kind = "resolve" /\ err'.arg \in Kinds
             /\ NewCalls[i].arg = cachekey(err'.arg, "x")
             /\ NewCalls[i].arg \notin DOMAIN cache'
             /\ \A k \in DOMAIN cache : k \in DOMAIN cache' /\ cache'[k] = cache[k]
             /\ \A k \in DOMAIN cache' \ DOMAIN cache :
                  \E j \in 1..(i - 1) : NewCalls[j] = Ev("lookup", k, TRUE)
             /\ common' = NoCommon /\ customCDList' = <<>>
             /\ \A j \in DOMAIN NewCalls : NewCalls[j].op = "lookup"
             /\ srv' = srv /\ nextId' = nextId
      /\ (err'.kind = "resolve" /\ err'.arg \in Kinds) =>
           NewCalls # <<>> /\ ~NewCalls[Len(NewCalls)].ok
      /\ common' # NoCommon =>
           \A kind \in Kinds :
              (cachekey(kind, "x") \notin DOMAIN cache
               /\ Resolved(common', kind) \notin ConfigIDs) =>
                 \E i \in DOMAIN NewCalls : NewCalls[i] = Ev("lookup", cachekey(kind, "x"), TRUE)

\* C31: a failed name resolution (flavor, image or network name not found)
\* aborts the scale-out before any instance is created and writes no cache entry
\* for the failed name, so that a later resolution of the name issues a new
\* provider lookup.
C31_ResolveFailure == [][C31_Step]_vars

\* the flavor name was not found after the image name was resolved: the call
\* ended with no create request and no flavor entry
C31_Witness ==
    /\ op = "scale" /\ pc = "done" /\ err = Err("resolve", "flavor")
    /\ log[Len(log)] = Ev("lookup", cachekey("flavor", "x"), FALSE)
    /\ log[Len(log) - 1] = Ev("lookup", cachekey("image", "x"), TRUE)
    /\ DOMAIN cache = {cachekey("image", "x")}
    /\ LogOps({"create"}) = {}

\* ---- C32
\* the slot of the k-th create request of the call
SlotOf(i) == Cardinality({j \in LogOps({"create"}) : j <= i})

\* C32: a user-data template failure (parse or render) for an instance aborts
\* that instance's creation before its create request is submitted: every create
\* request of a call is for a slot whose options were built, and when the call
\* ends with the option error of slot k, the requests made are those of the
\* k - 1 slots before it, no provider call follows the last of them but its
\* wait and floating-IP calls, and no later slot has a request.
C32_TemplateAbort ==
    op = "scale" =>
      /\ \A i \in LogOps({"create"}) :
           /\ SlotOf(i) \in DOMAIN customCDList
           /\ dataToCreateOpts(common, customCDList[SlotOf(i)]).ok
      /\ (pc = "done" /\ err.kind = "opts") =>
           /\ idx \in DOMAIN customCDList /\ err.arg = ToString(idx)
           /\ ~dataToCreateOpts(common, customCDList[idx]).ok
           /\ \A k \in 1..(idx - 1) : dataToCreateOpts(common, customCDList[k]).ok
           /\ Cardinality(LogOps({"create"})) = idx - 1
           /\ \A i \in DOMAIN log : log[i].ok
           /\ Cardinality({id \in DOMAIN srv : \E i \in LogOps({"create"}) :
                              log[i].arg = id}) = idx - 1

\* the template failed on the second slot of a batch of two, after the first
\* instance was created and became ACTIVE
C32_Witness ==
    /\ op = "scale" /\ pc = "done" /\ err = Err("opts", "2")
    /\ Len(customCDList) = 2
    /\ Cardinality(LogOps({"create"})) = 1
    /\ \E i \in LogOps({"create"}) : srv[log[i].arg].status = "ACTIVE"

\* ---- C33
\* every step: an entry leaves the floating-IP table only with the successful
\* provider delete of the floating IP it names, which is then no more allocated;
\* a failed floating-IP delete leaves the table as it was
C33_Step ==
    /\ \A i \in DOMAIN fipIDs :
         i \notin DOMAIN fipIDs' =>
           /\ \E j \in DOMAIN NewCalls : NewCalls[j] = Ev("fipdelete", fipIDs[i], TRUE)
           /\ fipIDs[i] \notin fips'
    /\ \A j \in DOMAIN NewCalls :
         (NewCalls[j].op = "fipdelete" /\ ~NewCalls[j].ok) =>
           /\ fipIDs' = fipIDs
           /\ \E i \in DOMAIN fipIDs' : fipIDs'[i] = NewCalls[j].arg

\* C33: no floating IP is forgotten while still allocated: whenever deleteServer
\* removes an instance's entry from the floating-IP table, the floating IP named
\* by that entry has been successfully deleted at the provider; if the
\* floating-IP deletion fails, the entry is still in the table.
C33_NoForgottenFip == [][C33_Step]_vars

\* ---- C34
\* deleteServer returns nil for instance inst in this step
DeleteServerDone ==
    /\ pc \in {"waitGone", "fipDelete"} /\ pc' # "fipDelete" /\ err' = NoErr
    /\ NewCalls # <<>> /\ NewCalls[Len(NewCalls)].ok
    /\ NewCalls[Len(NewCalls)].op \in {"get", "fipdelete"}

\* every step: an entry enters the floating-IP table only with the successful
\* allocation of a floating IP for that instance, whose identifier it holds; and
\* when deleteServer returns nil for an instance that had an entry, in either
\* delete mode, the floating IP of the entry was deleted at the provider and
\* the instance has no entry any more
C34_Step ==
    /\ \A i \in DOMAIN fipIDs' :
         /\ fipIDs'[i] = FipId(i) /\ fipIDs'[i] \in fips'
         /\ i \notin DOMAIN fipIDs =>
              /\ pc = "fipAttach" /\ i = inst
              /\ NewCalls[Len(NewCalls)] = Ev("fipcreate", i, TRUE)
              /\ fipIDs'[i] \notin fips
    /\ DeleteServerDone =>
         /\ inst \notin DOMAIN fipIDs'
         /\ inst \in DOMAIN fipIDs =>
              /\ pc = "fipDelete"
              /\ NewCalls = <<Ev("fipdelete", fipIDs[inst], TRUE)>>
              /\ fipIDs[inst] \in fips /\ fips' = fips \ {fipIDs[inst]}
              /\ \A i \in DOMAIN fipIDs : i # inst =>
                   i \in DOMAIN fipIDs' /\ fipIDs'[i] = fipIDs[i]
         /\ Gone(srv[inst])

\* C34: floating-IP round trip: the table holds an entry for an instance only
\* if a floating IP was allocated for it by this process, and when such an
\* instance is deleted successfully a delete of exactly that floating IP is
\* issued and the entry is gone.
C34_RoundTrip == [][C34_Step]_vars

\* an instance that got a floating IP in an earlier call was deleted in
\* name-scan mode: its floating IP was deleted and it has no entry
C34_Witness ==
    /\ op = "scale" /\ pc = "done" /\ err = NoErr /\ ~idMapper
    /\ \E i \in DOMAIN srv :
         /\ Gone(srv[i]) /\ srv[i].status # "NONE"
         /\ \E j \in DOMAIN log : log[j] = Ev("fipdelete", FipId(i), TRUE)
         /\ i \notin DOMAIN fipIDs /\ FipId(i) \notin fips

\* the same round trip in direct-ID mode
C34_WitnessByID ==
    /\ op = "scale" /\ pc = "done" /\ err = NoErr /\ idMapper
    /\ \E i \in DOMAIN srv :
         /\ \E j \in DOMAIN log : log[j] = Ev("fipdelete", FipId(i), TRUE)
         /\ i \notin DOMAIN fipIDs /\ FipId(i) \notin fips

\* ---- C35
\* the sum of the counters of a zone map
SumOf(mp) ==
    LET RECURSIVE Sum(_)
        Sum(ks) == IF ks = {} THEN 0
                   ELSE LET k == CHOOSE x \in ks : TRUE
                        IN mp[k] + Sum(ks \ {k})
    IN Sum(DOMAIN mp)

\* the place in the listing of the server with member identifier x
PlaceOf(x) == CHOOSE i \in DOMAIN fin.list : idFn(fin.list[i], fin.idm) = x

\* C35: inventory consistency: in every result of a successful countServers
\* total is the number of member identifiers and the sum of the zone counters,
\* every zone counter is positive, 0 <= ready <= total, and the member
\* identifiers are, in listing order and one for each, the provider IDs of the
\* counted servers when the ID mapper is configured and their names otherwise.
C35_Inventory ==
    fin.done =>
      /\ fout.total = Len(fout.remoteIDs)
      /\ fout.total = SumOf(fout.azDist)
      /\ \A z \in DOMAIN fout.azDist : fout.azDist[z] >= 1
      /\ 0 <= fout.ready /\ fout.ready <= fout.total
      /\ \A a \in DOMAIN fout.remoteIDs :
           /\ \E i \in DOMAIN fin.list :
                /\ fin.list[i].status \notin fin.ign
                /\ fout.remoteIDs[a] = IF fin.idm THEN fin.list[i].id ELSE fin.list[i].name
           /\ \A b \in DOMAIN fout.remoteIDs :
                a < b => PlaceOf(fout.remoteIDs[a]) < PlaceOf(fout.remoteIDs[b])
      /\ \A i \in DOMAIN fin.list :
           fin.list[i].status \notin fin.ign =>
             \E a \in DOMAIN fout.remoteIDs : PlaceOf(fout.remoteIDs[a]) = i

\* three servers in two zones, the second ignored, listed by provider ID
C35_Witness ==
    /\ fin.done /\ fin.idm /\ Len(fin.list) = 3
    /\ fin.list[2].status \in fin.ign
    /\ fout.remoteIDs = <<fin.list[1].id, fin.list[3].id>>
    /\ fout.total = 2 /\ fout.ready = 1
    /\ DOMAIN fout.azDist = {AZ(1), AZ(2)}

\* ---- C36
\* C36: every Scale and Status call terminates: a call in flight, in whichever
\* step or polling loop (wait for ACTIVE, for SHUTOFF, for gone) it stands,
\* eventually returns, with success or with an error.
C36_Terminates == (pc \notin {"idle", "done"}) ~> (pc = "done" /\ op \in {"scale", "status"})

\* a Scale call returned by the timeout of its wait for ACTIVE while the
\* instance was still building
C36_Witness ==
    /\ op = "scale" /\ pc = "done" /\ err.kind = "waitActive"
    /\ err.arg \in SrvIds /\ srv[err.arg].status = "BUILD"

\* ---- C37
\* C37: the resolver cache and the floating-IP table are never accessed by two
\* invocations at the same time: when calls on one plugin overlap, no two of
\* them stand in conflicting accesses of the same map, the process never ends
\* on a concurrent map access, and no floating IP that is allocated has lost
\* its entry.
C37_MutualExclusion ==
    /\ \A t \in Threads, u \in Threads :
         (t # u /\ fin[t].in /\ fin[u].in) => ~Conflict(CurAccess(t), CurAccess(u))
    /\ ~fout.crashed
    /\ \A f \in fout.fips : \E i \in DOMAIN fout.fipIDs : fout.fipIDs[i] = f

\* ---- C38
\* C38: a SetConfig call that fails with a configuration error (a timeout that
\* does not parse, or a state in the ignore list that cannot be ignored) leaves
\* the effective settings as they were before the call: the three timeouts,
\* the stop-first and force-delete flags and the ignore set. It is stated for
\* the calls on a plugin that has been configured before.
C38_FailedSetConfig ==
    (fin.err # "" /\ fin.before # ZeroSettings) => fout = fin.before

====
